---- MODULE Spec2Model ----
(***************************************************************************)
(* BackChannel: the package store (DatabaseService, src/src/services/db.ts)*)
(* its catalog of 'bc-storage-' databases, the URL resolver and the        *)
(* localStorage cache (bc_root / bc_package), with the create-package flow *)
(* of src/src/index.ts.                                                    *)
(*                                                                         *)
(* Strings are sequences of tokens: a protocol ("http://", "https://") or  *)
(* a path segment.  String.prototype.includes / startsWith and the regular *)
(* expression of _normalizeUrl are computed on these sequences.            *)
(* A nullable value is a set with no element (null) or one element.        *)
(* Each action is one call running to completion with no other call        *)
(* interleaved (the host is single-threaded; every call is awaited), but   *)
(* for the calls kept in pending, which are taken one await at a time.     *)
(***************************************************************************)
EXTENDS Naturals, Sequences, FiniteSets, TLC

\* Longest URL (in tokens) handed to the resolver.
MaxUrlLen == 3

StoreIds == {"site1", "site2"}
PkgIds == {"p1", "p2"}
NoId == ""
Names == {"n1"}
Protocols == {"http://", "https://"}
PathTokens == {"a", "b"}

SeqsUpTo(S, n) == UNION {[1..k -> S] : k \in 0..n}

\* Page URLs (window.location.href): a protocol followed by path segments;
\* <<>> is the empty string.
Urls == {<<>>} \cup {<<p>> \o path : p \in Protocols, path \in SeqsUpTo(PathTokens, MaxUrlLen - 1)}

\* Root URLs a package may carry, and the absent (or empty) rootURL.
Roots == {<<"https://", "a">>, <<"https://", "a", "b">>}
NoRoot == <<>>

\* Package of types.d.ts; name stands for the descriptive fields
\* (name, version, author), which every operation carries along verbatim.
\* Callers hand in packages with or without an id; one package comes without
\* a rootURL.
PackageInputs ==
  [id : PkgIds \cup {NoId}, rootURL : Roots, name : Names]
    \cup [id : {"p1"}, rootURL : {NoRoot}, name : Names]

Null == {}
Some(v) == {v}

\* No call is suspended.
NoPending == [op |-> "none"]

VARIABLES
  catalog,  \* the engine's databases, in the order indexedDB.databases() lists them
  dbs,      \* store id -> the records of its 'packages' object store (keyPath id)
  svc,      \* the store the caller's DatabaseService is connected to (this.db),
            \* Null before init() and after close()
  fakeDatabases,
            \* the registry of substitute databases (useFakeDatabases), in
            \* insertion order: the name of each and whether the connection
            \* object registered for it is still open; empty unless a page
            \* supplies fake data
  cache,    \* localStorage: bc_root and bc_package
  comments, \* store id -> the records of its 'comments' object store
            \* (keyPath timestamp)
  pending,  \* the call that is suspended at an await while other calls run:
            \* none, a searchByUrl scan between two databases, or a Store
            \* operation waiting for an event of the engine
  ret       \* the last call: its name, its argument (a store id or a URL), what
            \* it returned, and the store opens and catalog listings it made

vars == <<catalog, dbs, svc, fakeDatabases, cache, comments, pending, ret>>

Range(s) == {s[i] : i \in 1..Len(s)}

\* constructor: this.dbName = `bc-storage-${...}`
DbName(id) == <<"bc-storage-", id>>

\* searchByUrl: dbName.replace('bc-storage-', '')
DbIdOf(name) == name[2]

Exists(id) == DbName(id) \in Range(catalog)

----------------------------------------------------------------------------
\* String.prototype.startsWith
StartsWith(s, p) == Len(p) <= Len(s) /\ SubSeq(s, 1, Len(p)) = p

\* String.prototype.includes
Includes(s, p) == \E i \in 0..Len(s) : i + Len(p) <= Len(s) /\ SubSeq(s, i + 1, i + Len(p)) = p

\* DatabaseService._normalizeUrl: url.replace(/^https?:\/\//, '')
NormalizeUrl(url) ==
  IF url = <<>> THEN <<>>
  ELSE IF Head(url) \in Protocols THEN Tail(url) ELSE url

\* The comparison of db.ts 308-309 and 413-414.
UrlMatches(url, root) ==
  Includes(url, root) \/ Includes(NormalizeUrl(url), NormalizeUrl(root))

----------------------------------------------------------------------------
\* The cache: localStorage items bc_root and bc_package.
EmptyCache == [bc_root |-> Null, bc_package |-> Null]

\* JSON.stringify({ ...packageData, dbId })
Serialize(pkg, dbId) ==
  [id |-> pkg.id, rootURL |-> pkg.rootURL, name |-> pkg.name, dbId |-> dbId]
\* Variant of the cache read that leaves dbId inside the package data.
ParseCachedKeepDbId(s) == [dbId |-> s.dbId, packageData |-> s]

\* JSON.parse(cachedPackage); dbId = packageData.dbId; delete packageData.dbId
ParseCached(s) ==
  [dbId |-> s.dbId,
   packageData |-> [id |-> s.id, rootURL |-> s.rootURL, name |-> s.name]]
\* Variant of clearPackageCache that removes nothing.
KeepPackageCache == cache

\* DatabaseService.clearPackageCache
ClearPackageCache == EmptyCache

\* localStorage.setItem('bc_root', ...); localStorage.setItem('bc_package', ...)
CacheEntry(pkg, dbId) ==
  [bc_root |-> Some(pkg.rootURL), bc_package |-> Some(Serialize(pkg, dbId))]

\* The condition of db.ts 305-310 on the cached items.
CacheHit(url, c) ==
  /\ c.bc_root # Null
  /\ c.bc_package # Null
  /\ \E r \in c.bc_root : r # NoRoot /\ UrlMatches(url, r)

----------------------------------------------------------------------------
\* The result of a call, as the caller sees it.
Ret(op, arg, val, threw, opens, listed) ==
  [op |-> op, arg |-> arg, val |-> val, threw |-> threw,
   opens |-> opens, listed |-> listed]

----------------------------------------------------------------------------
\* The 'packages' object store (keyPath 'id') of one database.
KeyExists(pkgs, id) == \E q \in pkgs : q.id = id

\* IDBObjectStore.add: a ConstraintError when the key is already present.
IdbAdd(pkgs, p) ==
  IF KeyExists(pkgs, p.id)
  THEN [ok |-> FALSE, records |-> pkgs]
  ELSE [ok |-> TRUE, records |-> pkgs \cup {p}]

\* IDBObjectStore.put: insert, or replace the record with the same key.
IdbPut(pkgs, p) == {q \in pkgs : q.id # p.id} \cup {p}

\* constructor / _addPackage: a package without id gets a generated one.
WithId(pkg, gen) == IF pkg.id = NoId THEN [pkg EXCEPT !.id = gen] ELSE pkg
\* Variant of _checkPackagesExist that never finds a record.
CheckPackagesExistNever(pkgs, connected) == FALSE

\* _checkPackagesExist: count() > 0 (false without a connection)
CheckPackagesExist(pkgs, connected) == connected /\ pkgs # {}

\* _addPackage, after its clearPackageCache(): the value it resolves to and
\* the records it leaves.
AddPackageResult(pkgs, connected, pkg, gen) ==
  IF ~connected THEN [val |-> Null, records |-> pkgs]
  ELSE IF CheckPackagesExist(pkgs, connected) THEN [val |-> Null, records |-> pkgs]
  ELSE LET p == WithId(pkg, gen)
           a == IdbAdd(pkgs, p)
       IN  [val |-> IF a.ok THEN Some(p.id) ELSE Null, records |-> a.records]
\* Variant of getPackage that resolves with some record when several exist.
GetPackageAny(pkgs, connected) ==
  IF ~connected \/ pkgs = {} THEN [threw |-> FALSE, val |-> Null]
  ELSE [threw |-> FALSE, val |-> {CHOOSE p \in pkgs : TRUE}]

\* getPackage: null without a connection or with no record, the record when
\* there is one, a rejection when there are several.
GetPackageResult(pkgs, connected) ==
  IF ~connected THEN [threw |-> FALSE, val |-> Null]
  ELSE IF Cardinality(pkgs) > 1 THEN [threw |-> TRUE, val |-> Null]
  ELSE [threw |-> FALSE, val |-> pkgs]

\* updatePackage, after its clearPackageCache().
UpdatePackageResult(pkgs, connected, pkg) ==
  IF ~connected \/ pkg.id = NoId THEN [val |-> FALSE, records |-> pkgs]
  ELSE [val |-> TRUE, records |-> IdbPut(pkgs, pkg)]

\* Variant of init() that writes the seed with put whatever the store holds.
InitRecordsPut(created, pkgs, seed, gen) ==
  IF seed = Null THEN pkgs
  ELSE IdbPut(pkgs, WithId(CHOOSE x \in seed : TRUE, gen))

\* init(): the records of the store once init() has returned, and the cache.
\* A database that did not exist is created, and a seed is added to it in
\* onupgradeneeded; an existing one gets the seed through _addPackage when
\* its packages store is empty.
InitRecords(created, pkgs, seed, gen) ==
  IF seed = Null THEN pkgs
  ELSE LET p == WithId(CHOOSE x \in seed : TRUE, gen) IN
       IF created THEN IdbAdd(pkgs, p).records
       ELSE IF CheckPackagesExist(pkgs, TRUE) THEN pkgs
       ELSE AddPackageResult(pkgs, TRUE, p, gen).records

InitCache(created, pkgs, seed, c) ==
  IF seed # Null /\ ~created /\ ~CheckPackagesExist(pkgs, TRUE)
  THEN ClearPackageCache
  ELSE c

----------------------------------------------------------------------------
\* Variant of the listing filter that accepts the prefix anywhere in the name.
IsBackChannelNameAnywhere(name) == Includes(name, <<"bc-storage-">>)

\* getAllBackChannelDatabases: the names that start with 'bc-storage-'.
IsBackChannelName(name) == StartsWith(name, <<"bc-storage-">>)
GetAllBackChannelDatabases(cat) == SelectSeq(cat, IsBackChannelName)

\* The body of searchByUrl's loop for one database: a new DatabaseService is
\* opened, getPackage is read (a rejection is caught and skipped), the root is
\* compared, the service is closed.  The matches this database contributes.
StoreMatches(url, name, d) ==
  LET dbId == DbIdOf(name)
      got == GetPackageResult(d[dbId], TRUE)
  IN  IF got.threw THEN <<>>
      ELSE IF \E p \in got.val : p.rootURL # NoRoot /\ UrlMatches(url, p.rootURL)
      THEN <<[dbId |-> dbId, dbName |-> name,
              packageData |-> CHOOSE p \in got.val : TRUE]>>
      ELSE <<>>

RECURSIVE ScanFrom(_, _, _, _)
ScanFrom(url, names, d, i) ==
  IF i > Len(names) THEN <<>>
  ELSE StoreMatches(url, names[i], d) \o ScanFrom(url, names, d, i + 1)

\* Variant of searchByUrl that stops at the first match.
SearchByUrlFirstOnly(url, cat, d) ==
  LET m == ScanFrom(url, GetAllBackChannelDatabases(cat), d, 1)
  IN  IF m = <<>> THEN <<>> ELSE <<m[1]>>

\* searchByUrl(urlPattern) for a non-empty pattern: the matches, in the order
\* of getAllBackChannelDatabases.
SearchByUrlResult(url, cat, d) ==
  ScanFrom(url, GetAllBackChannelDatabases(cat), d, 1)

\* Variant of the resolver that takes the last match of the scan.
ActiveResultLast(url, cat, d, c) ==
  IF url = <<>> THEN Null
  ELSE IF CacheHit(url, c)
  THEN {ParseCached(s) : s \in c.bc_package}
  ELSE LET m == SearchByUrlResult(url, cat, d) IN
       IF m # <<>>
       THEN Some([dbId |-> m[Len(m)].dbId, packageData |-> m[Len(m)].packageData])
       ELSE Null

\* What getActiveFeedbackPackageForUrl(url) resolves to.
ActiveResult(url, cat, d, c) ==
  IF url = <<>> THEN Null
  ELSE IF CacheHit(url, c)
  THEN {ParseCached(s) : s \in c.bc_package}
  ELSE LET m == SearchByUrlResult(url, cat, d) IN
       IF m # <<>>
       THEN Some([dbId |-> m[1].dbId, packageData |-> m[1].packageData])
       ELSE Null
\* Variant of the resolver that drops the cache entry when the scan finds nothing.
ActiveCacheClearOnMiss(url, cat, d, c) ==
  IF url = <<>> \/ CacheHit(url, c) THEN c
  ELSE LET m == SearchByUrlResult(url, cat, d)
       IN  IF m # <<>> THEN CacheEntry(m[1].packageData, m[1].dbId) ELSE EmptyCache

\* The cache once getActiveFeedbackPackageForUrl(url) has returned.
ActiveCache(url, cat, d, c) ==
  IF url = <<>> \/ CacheHit(url, c) THEN c
  ELSE LET m == SearchByUrlResult(url, cat, d) IN
       IF m # <<>> THEN CacheEntry(m[1].packageData, m[1].dbId) ELSE c

\* The catalog enumerations getActiveFeedbackPackageForUrl(url) makes, and
\* the stores it opens: none unless it reaches searchByUrl.
ActiveListed(url, c) == IF url = <<>> \/ CacheHit(url, c) THEN 0 ELSE 1
\* Variant of the resolver that scans before looking at the cache.
ActiveOpensEager(url, cat, c) ==
  IF url = <<>> THEN 0 ELSE Len(GetAllBackChannelDatabases(cat))

ActiveOpens(url, cat, c) ==
  IF url = <<>> \/ CacheHit(url, c) THEN 0 ELSE Len(GetAllBackChannelDatabases(cat))

----------------------------------------------------------------------------
\* The store the caller's service is connected to, and its records.
SvcStore == IF svc = Null THEN "" ELSE CHOOSE s \in svc : TRUE
SvcRecords == IF svc = Null THEN {} ELSE dbs[SvcStore]
SetSvcRecords(records) == IF svc = Null THEN dbs ELSE [dbs EXCEPT ![SvcStore] = records]

\* What new DatabaseService(id, seed) followed by init() does to the
\* catalog, the packages store, the cache and the service.
OpenEffects(id, seed, gen) ==
  LET created == ~Exists(id) IN
  /\ catalog' = IF created THEN Append(catalog, DbName(id)) ELSE catalog
  /\ dbs' = [dbs EXCEPT ![id] = InitRecords(created, dbs[id], seed, gen)]
  /\ cache' = InitCache(created, dbs[id], seed, cache)
  /\ svc' = Some(id)
  /\ UNCHANGED fakeDatabases

\* new DatabaseService(id, seed) followed by init().
OpenStore(id, seed, gen) ==
  /\ OpenEffects(id, seed, gen)
  /\ ret' = Ret("init", id, TRUE, FALSE, 1, 0)
  /\ UNCHANGED <<comments, pending>>

\* close() on the caller's service.
Close ==
  /\ svc' = Null
  /\ ret' = Ret("close", SvcStore, Null, FALSE, 0, 0)
  /\ UNCHANGED <<catalog, dbs, fakeDatabases, cache, comments, pending>>

\* _addPackage(pkg) on the caller's service.
AddPackage(pkg, gen) ==
  LET r == AddPackageResult(SvcRecords, svc # Null, pkg, gen) IN
  /\ cache' = ClearPackageCache
  /\ dbs' = SetSvcRecords(r.records)
  /\ ret' = Ret("addPackage", SvcStore, r.val, FALSE, 0, 0)
  /\ UNCHANGED <<catalog, svc, fakeDatabases, comments, pending>>

\* getPackage() on the caller's service.
GetPackage ==
  LET r == GetPackageResult(SvcRecords, svc # Null) IN
  /\ ret' = Ret("getPackage", SvcStore, r.val, r.threw, 0, 0)
  /\ UNCHANGED <<catalog, dbs, svc, fakeDatabases, cache, comments, pending>>

\* updatePackage(pkg) on the caller's service.
UpdatePackage(pkg) ==
  LET r == UpdatePackageResult(SvcRecords, svc # Null, pkg) IN
  /\ cache' = ClearPackageCache
  /\ dbs' = SetSvcRecords(r.records)
  /\ ret' = Ret("updatePackage", SvcStore, r.val, FALSE, 0, 0)
  /\ UNCHANGED <<catalog, svc, fakeDatabases, comments, pending>>

\* DatabaseService.searchByUrl(url), called directly.
SearchByUrl(url) ==
  /\ ret' = IF url = <<>>
            THEN Ret("searchByUrl", url, <<>>, TRUE, 0, 0)
            ELSE Ret("searchByUrl", url, SearchByUrlResult(url, catalog, dbs), FALSE,
                     Len(GetAllBackChannelDatabases(catalog)), 1)
  /\ UNCHANGED <<catalog, dbs, svc, fakeDatabases, cache, comments, pending>>

\* DatabaseService.getActiveFeedbackPackageForUrl(url)
GetActiveFeedbackPackageForUrl(url) ==
  /\ cache' = ActiveCache(url, catalog, dbs, cache)
  /\ ret' = Ret("getActive", url, ActiveResult(url, catalog, dbs, cache), FALSE,
                ActiveOpens(url, catalog, cache), ActiveListed(url, cache))
  /\ UNCHANGED <<catalog, dbs, svc, fakeDatabases, comments, pending>>

\* The 'create-package' listener of index.ts: a service for the title is
\* opened, the new package is written with updatePackage, and the listener
\* writes the cache itself.
Origin == <<"https://", "a">>
UrlPrefixes == {<<>>, <<"b">>}

CreatePackage(title, urlPrefix, gen) ==
  LET pkg == [id |-> gen, rootURL |-> Origin \o urlPrefix, name |-> "n1"]
      created == ~Exists(title)
      r == UpdatePackageResult(dbs[title], TRUE, pkg)
  IN
  /\ catalog' = IF created THEN Append(catalog, DbName(title)) ELSE catalog
  /\ dbs' = [dbs EXCEPT ![title] = r.records]
  /\ cache' = CacheEntry(pkg, title)
  /\ ret' = Ret("createPackage", title, Null, FALSE, 1, 0)
  /\ UNCHANGED <<svc, fakeDatabases, comments, pending>>

Init ==
  /\ catalog = <<>>
  /\ dbs = [s \in StoreIds |-> {}]
  /\ svc = Null
  /\ fakeDatabases = <<>>
  /\ cache = EmptyCache
  /\ comments = [s \in StoreIds |-> {}]
  /\ pending = NoPending
  /\ ret = Ret("none", "", Null, FALSE, 0, 0)

\* The ids Date.now() may yield where one is generated ('pkg-' + Date.now());
\* a package that carries an id generates none.
GenIds(pkg) == IF pkg.id = NoId THEN PkgIds ELSE {pkg.id}
Seeds == {Null} \cup {Some(p) : p \in PackageInputs}
SeedGenIds(seed) == IF seed = Null THEN {NoId} ELSE UNION {GenIds(p) : p \in seed}

Next ==
  \/ \E id \in StoreIds, seed \in Seeds : \E gen \in SeedGenIds(seed) :
       OpenStore(id, seed, gen)
  \/ Close
  \/ \E pkg \in PackageInputs : \E gen \in GenIds(pkg) : AddPackage(pkg, gen)
  \/ GetPackage
  \/ \E pkg \in PackageInputs : UpdatePackage(pkg)
  \/ \E url \in Urls : SearchByUrl(url)
  \/ \E url \in Urls : GetActiveFeedbackPackageForUrl(url)
  \/ \E title \in StoreIds, urlPrefix \in UrlPrefixes, gen \in PkgIds :
       CreatePackage(title, urlPrefix, gen)

Spec == Init /\ [][Next]_vars

----------------------------------------------------------------------------
(***************************************************************************)
(* The resolver under a failing environment.  A call sees an environment:  *)
(* whether window.indexedDB exists, whether indexedDB.databases() rejects, *)
(* whether localStorage.getItem throws, and for every database whether     *)
(* opening it fails (request.onerror), reading its packages fails          *)
(* (getAll's onerror) or throws (db.transaction throws).  No fake database *)
(* is registered.                                                          *)
(***************************************************************************)
Faults == {"ok", "openFails", "readFails", "readThrows"}
NoFault == [engine |-> TRUE, list |-> FALSE, cacheRead |-> FALSE,
            fault |-> [s \in StoreIds |-> "ok"]]
\* The environments of a call: at most one thing fails.
Envs ==
  {NoFault, [NoFault EXCEPT !.engine = FALSE], [NoFault EXCEPT !.list = TRUE],
   [NoFault EXCEPT !.cacheRead = TRUE]}
    \cup {[NoFault EXCEPT !.fault[s] = f] : s \in StoreIds, f \in Faults}

\* A bc_package value that JSON.parse rejects.
Corrupt == [corrupt |-> TRUE]
\* JSON.parse(cachedPackage) returns.
Parses(s) == "corrupt" \notin DOMAIN s

\* init() of the service searchByUrl builds: whether this.db is set afterwards.
InitConnects(fault) == fault # "openFails"

\* Variant of getPackage that reads whatever the environment does.
GetPackageEnvIgnoreFault(pkgs, connected, fault) == GetPackageResult(pkgs, TRUE)

\* getPackage() when the read may fail: no connection resolves null, a
\* throwing transaction rejects, a failing request resolves null.
GetPackageEnv(pkgs, connected, fault) ==
  IF ~connected THEN [threw |-> FALSE, val |-> Null]
  ELSE IF fault = "readThrows" THEN [threw |-> TRUE, val |-> Null]
  ELSE IF fault = "readFails" THEN [threw |-> FALSE, val |-> Null]
  ELSE GetPackageResult(pkgs, TRUE)

\* Variant of the loop body that closes only after a read that did not throw.
ClosedUnlessThrown(connected, threw) == IF connected /\ ~threw THEN 1 ELSE 0

\* The finally block of the loop body: close() closes this.db if it is set.
ClosedAfter(connected, threw) == IF connected THEN 1 ELSE 0

\* The body of searchByUrl's loop for one database: the matches it
\* contributes, the connections it obtained and the connections it closed.
ScanStore(url, name, d, fault) ==
  LET dbId == DbIdOf(name)
      connected == InitConnects(fault)
      got == GetPackageEnv(d[dbId], connected, fault)
  IN  [matches |->
         IF got.threw THEN <<>>
         ELSE IF \E p \in got.val : p.rootURL # NoRoot /\ UrlMatches(url, p.rootURL)
         THEN <<[dbId |-> dbId, dbName |-> name,
                 packageData |-> CHOOSE p \in got.val : TRUE]>>
         ELSE <<>>,
       handles |-> IF connected THEN 1 ELSE 0,
       closed |-> ClosedAfter(connected, got.threw)]

RECURSIVE ScanFromEnv(_, _, _, _, _)
ScanFromEnv(url, names, d, env, i) ==
  IF i > Len(names) THEN [matches |-> <<>>, handles |-> 0, closed |-> 0]
  ELSE LET one == ScanStore(url, names[i], d, env.fault[DbIdOf(names[i])])
           rest == ScanFromEnv(url, names, d, env, i + 1)
       IN  [matches |-> one.matches \o rest.matches,
            handles |-> one.handles + rest.handles,
            closed |-> one.closed + rest.closed]

\* What a call leaves: its result or the fact that it raised, the cache, the
\* catalog enumerations and init() calls it made, the connections it
\* obtained and the connections it closed, and whether it logged the
\* 'Error parsing cached package' warning.
Outcome(val, threw, c, listed, opens, handles, closed) ==
  [val |-> val, threw |-> threw, cache |-> c, listed |-> listed,
   opens |-> opens, handles |-> handles, closed |-> closed, warned |-> FALSE]

\* searchByUrl(url) in an environment.
SearchByUrlEnv(url, cat, d, c, env) ==
  IF url = <<>> THEN Outcome(<<>>, TRUE, c, 0, 0, 0, 0)
  ELSE IF ~env.engine THEN Outcome(<<>>, TRUE, c, 0, 0, 0, 0)
  ELSE IF env.list THEN Outcome(<<>>, TRUE, c, 1, 0, 0, 0)
  ELSE LET names == GetAllBackChannelDatabases(cat)
           scan == ScanFromEnv(url, names, d, env, 1)
       IN  Outcome(scan.matches, FALSE, c, 1, Len(names), scan.handles, scan.closed)

\* The cache miss path of getActiveFeedbackPackageForUrl: the scan, then the
\* cache write and the first match, or null.
ScanAndCache(url, cat, d, c, env) ==
  LET s == SearchByUrlEnv(url, cat, d, c, env) IN
  IF s.threw THEN s
  ELSE IF s.val # <<>>
  THEN [s EXCEPT !.val = Some([dbId |-> s.val[1].dbId, packageData |-> s.val[1].packageData]),
                 !.cache = CacheEntry(s.val[1].packageData, s.val[1].dbId)]
  ELSE [s EXCEPT !.val = Null]

\* Variant of the parse error handler that gives up.
AfterParseErrorGiveUp(url, cat, d, c, env) ==
  [Outcome(Null, FALSE, c, 0, 0, 0, 0) EXCEPT !.warned = TRUE]

\* The handler of a JSON.parse error: a warning, then the scan.
AfterParseError(url, cat, d, c, env) ==
  [ScanAndCache(url, cat, d, c, env) EXCEPT !.warned = TRUE]

\* Variant of the outer handler that lets the error through.
Rethrow(r) == r

\* The outer catch of getActiveFeedbackPackageForUrl: any error becomes null.
CatchToNull(r) == IF r.threw THEN [r EXCEPT !.threw = FALSE, !.val = Null] ELSE r

\* The try block of getActiveFeedbackPackageForUrl.
ActiveTry(url, cat, d, c, env) ==
  IF env.cacheRead THEN Outcome(Null, TRUE, c, 0, 0, 0, 0)
  ELSE IF CacheHit(url, c)
  THEN IF \A s \in c.bc_package : Parses(s)
       THEN Outcome({ParseCached(s) : s \in c.bc_package}, FALSE, c, 0, 0, 0, 0)
       ELSE AfterParseError(url, cat, d, c, env)
  ELSE ScanAndCache(url, cat, d, c, env)

\* Variant of the resolver that looks at the cache before the engine.
ActiveEnvCacheFirst(url, cat, d, c, env) ==
  IF url = <<>> THEN Outcome(Null, FALSE, c, 0, 0, 0, 0)
  ELSE IF CacheHit(url, c) /\ \A s \in c.bc_package : Parses(s)
  THEN Outcome({ParseCached(s) : s \in c.bc_package}, FALSE, c, 0, 0, 0, 0)
  ELSE IF ~env.engine THEN Outcome(Null, FALSE, c, 0, 0, 0, 0)
  ELSE CatchToNull(ActiveTry(url, cat, d, c, env))

\* getActiveFeedbackPackageForUrl(url) in an environment.
ActiveEnv(url, cat, d, c, env) ==
  IF url = <<>> THEN Outcome(Null, FALSE, c, 0, 0, 0, 0)
  ELSE IF ~env.engine THEN Outcome(Null, FALSE, c, 0, 0, 0, 0)
  ELSE CatchToNull(ActiveTry(url, cat, d, c, env))

\* The record of a call made in an environment.
RetEnv(op, arg, env, r) ==
  [op |-> op, arg |-> arg, env |-> env, val |-> r.val, threw |-> r.threw,
   listed |-> r.listed, opens |-> r.opens, handles |-> r.handles, closed |-> r.closed,
   warned |-> r.warned]

\* Page URLs of the failing-environment runs.
FaultUrls == {<<>>, <<"https://", "a">>, <<"http://", "a", "b">>, <<"https://", "b">>}

SearchInEnv(url, env) ==
  /\ ret' = RetEnv("searchByUrl", url, env, SearchByUrlEnv(url, catalog, dbs, cache, env))
  /\ UNCHANGED <<catalog, dbs, svc, fakeDatabases, cache, comments, pending>>

GetActiveInEnv(url, env) ==
  LET r == ActiveEnv(url, catalog, dbs, cache, env) IN
  /\ cache' = r.cache
  /\ ret' = RetEnv("getActive", url, env, r)
  /\ UNCHANGED <<catalog, dbs, svc, fakeDatabases, comments, pending>>

\* new DatabaseService(id).init() without window.indexedDB: false, and
\* nothing is opened.
OpenUnsupported(id) ==
  /\ ret' = RetEnv("init", id, [NoFault EXCEPT !.engine = FALSE],
                   Outcome(FALSE, FALSE, cache, 0, 0, 0, 0))
  /\ UNCHANGED <<catalog, dbs, svc, fakeDatabases, cache, comments, pending>>

\* Another script of the page (or an older release) leaves a bc_package
\* value that is no JSON.
CorruptCache(root) ==
  /\ cache' = [bc_root |-> Some(root), bc_package |-> Some(Corrupt)]
  /\ ret' = Ret("corruptCache", root, Null, FALSE, 0, 0)
  /\ UNCHANGED <<catalog, dbs, svc, fakeDatabases, comments, pending>>

FaultNext ==
  \/ \E title \in StoreIds, urlPrefix \in UrlPrefixes, gen \in PkgIds :
       CreatePackage(title, urlPrefix, gen)
  \/ \E root \in Roots : CorruptCache(root)
  \/ \E id \in StoreIds : OpenUnsupported(id)
  \/ \E url \in FaultUrls, env \in Envs : SearchInEnv(url, env)
  \/ \E url \in FaultUrls, env \in Envs : GetActiveInEnv(url, env)

FaultSpec == Init /\ [][FaultNext]_vars

----------------------------------------------------------------------------
(***************************************************************************)
(* The operations of one service on its Store: open with seed data, the    *)
(* package writes and the comment operations.  The record of a call keeps  *)
(* the data the caller handed in.                                          *)
(***************************************************************************)
\* Largest comment timestamp.
MaxTimestamp == 1
Timestamps == 0..MaxTimestamp
Feedbacks == {"f1", "f2"}
\* Comment of types.d.ts; feedback stands for the fields other than the key
\* (xpath, elementText, feedback, pageUrl, documentTitle).
CommentInputs == [timestamp : Timestamps, feedback : Feedbacks]

\* The record stored under a timestamp, if any (store.get).
CommentAt(cs, t) == {c \in cs : c.timestamp = t}

\* Variant of addComment that writes with put.
AddCommentPut(cs, connected, c) ==
  IF ~connected THEN [val |-> Null, records |-> cs]
  ELSE [val |-> Some(c.timestamp),
        records |-> {x \in cs : x.timestamp # c.timestamp} \cup {c}]

\* addComment(c): store.add fails on a key that is present.
AddCommentResult(cs, connected, c) ==
  IF ~connected THEN [val |-> Null, records |-> cs]
  ELSE IF CommentAt(cs, c.timestamp) # {} THEN [val |-> Null, records |-> cs]
  ELSE [val |-> Some(c.timestamp), records |-> cs \cup {c}]

\* getComment(t): request.result || null.
GetCommentResult(cs, connected, t) == IF ~connected THEN Null ELSE CommentAt(cs, t)

\* updateComment(c): refused without a connection or with a falsy timestamp,
\* otherwise store.put.
UpdateCommentResult(cs, connected, c) ==
  IF ~connected \/ c.timestamp = 0 THEN [val |-> FALSE, records |-> cs]
  ELSE [val |-> TRUE, records |-> {x \in cs : x.timestamp # c.timestamp} \cup {c}]

\* Variant of deleteComment that reports success and deletes nothing.
DeleteCommentKeep(cs, connected, t) ==
  IF ~connected \/ CommentAt(cs, t) = {} THEN [val |-> FALSE, records |-> cs]
  ELSE [val |-> TRUE, records |-> cs]

\* deleteComment(t) for a number t: store.get, then store.delete if found.
DeleteCommentResult(cs, connected, t) ==
  IF ~connected \/ CommentAt(cs, t) = {} THEN [val |-> FALSE, records |-> cs]
  ELSE [val |-> TRUE, records |-> cs \ CommentAt(cs, t)]

SvcComments == IF svc = Null THEN {} ELSE comments[SvcStore]
SetSvcComments(records) ==
  IF svc = Null THEN comments ELSE [comments EXCEPT ![SvcStore] = records]

\* The record of a comment call: the store, the comment or timestamp handed
\* in, the result.
RetComment(op, data, val) == [op |-> op, arg |-> SvcStore, data |-> data, val |-> val]

AddComment(c) ==
  LET r == AddCommentResult(SvcComments, svc # Null, c) IN
  /\ comments' = SetSvcComments(r.records)
  /\ ret' = RetComment("addComment", c, r.val)
  /\ UNCHANGED <<catalog, dbs, svc, fakeDatabases, cache, pending>>

GetComment(t) ==
  /\ ret' = RetComment("getComment", t, GetCommentResult(SvcComments, svc # Null, t))
  /\ UNCHANGED <<catalog, dbs, svc, fakeDatabases, cache, comments, pending>>

UpdateComment(c) ==
  LET r == UpdateCommentResult(SvcComments, svc # Null, c) IN
  /\ comments' = SetSvcComments(r.records)
  /\ ret' = RetComment("updateComment", c, r.val)
  /\ UNCHANGED <<catalog, dbs, svc, fakeDatabases, cache, pending>>

DeleteComment(t) ==
  LET r == DeleteCommentResult(SvcComments, svc # Null, t) IN
  /\ comments' = SetSvcComments(r.records)
  /\ ret' = RetComment("deleteComment", t, r.val)
  /\ UNCHANGED <<catalog, dbs, svc, fakeDatabases, cache, pending>>

\* new DatabaseService(id, seed) followed by init(); the record keeps the
\* seed and the id the constructor generated for it.
OpenSeeded(id, seed, gen) ==
  /\ OpenEffects(id, seed, gen)
  /\ ret' = [op |-> "open", arg |-> id, seed |-> seed, gen |-> gen, val |-> TRUE]
  /\ UNCHANGED <<comments, pending>>

\* The packages handed to the service in these runs.
StorePackages ==
  {[id |-> "p1", rootURL |-> <<"https://", "a">>, name |-> "n1"],
   [id |-> "p2", rootURL |-> <<"https://", "a", "b">>, name |-> "n1"],
   [id |-> NoId, rootURL |-> <<"https://", "a">>, name |-> "n1"]}
StoreSeeds == {Null} \cup {Some(p) : p \in StorePackages}

\* The comments written in the runs that also write packages.
StoreComments == {[timestamp |-> 0, feedback |-> "f1"], [timestamp |-> 1, feedback |-> "f1"]}

StoreNext ==
  \/ \E id \in StoreIds, seed \in StoreSeeds : \E gen \in SeedGenIds(seed) :
       OpenSeeded(id, seed, gen)
  \/ Close
  \/ \E pkg \in StorePackages : \E gen \in GenIds(pkg) : AddPackage(pkg, gen)
  \/ \E pkg \in StorePackages : UpdatePackage(pkg)
  \/ \E url \in Roots : GetActiveFeedbackPackageForUrl(url)
  \/ \E c \in StoreComments : AddComment(c)
  \/ \E c \in StoreComments : UpdateComment(c)
  \/ \E c \in StoreComments : DeleteComment(c.timestamp)

StoreSpec == Init /\ [][StoreNext]_vars


----------------------------------------------------------------------------
(***************************************************************************)
(* searchByUrl taken one await at a time: the listing of the databases,    *)
(* then one database per step, while the caller's service writes packages  *)
(* between the steps.                                                      *)
(***************************************************************************)
ScanUrls == {<<"https://", "a">>, <<"https://", "a", "b">>}

\* Variant of the loop that reads the first listed database only.
LoopBodyFirstOnly(url, name, d, pos) ==
  IF pos = 1 THEN StoreMatches(url, name, d) ELSE <<>>

\* One iteration of the loop of searchByUrl, on the records as they are when
\* its getPackage transaction runs.
LoopBody(url, name, d, pos) == StoreMatches(url, name, d)

\* The listed stores whose records would make the loop push a match.
WouldMatch(url, names, d) ==
  {i \in 1..Len(names) : StoreMatches(url, names[i], d) # <<>>}

\* searchByUrl(url) up to its first database: the names are listed once.
\* With no database it returns [] at once.  seen keeps, for each iteration
\* made, which of the listed stores would have matched at that moment.
ScanBegin(url) ==
  LET names == GetAllBackChannelDatabases(catalog) IN
  /\ pending = NoPending
  /\ IF names = <<>>
     THEN /\ ret' = Ret("searchByUrl", url, <<>>, FALSE, 0, 1)
          /\ UNCHANGED pending
     ELSE /\ pending' = [op |-> "searchByUrl", url |-> url, names |-> names,
                         pos |-> 1, matches |-> <<>>, seen |-> <<>>]
          /\ UNCHANGED ret
  /\ UNCHANGED <<catalog, dbs, svc, fakeDatabases, cache, comments>>

\* The next iteration of the suspended scan; after the last one searchByUrl
\* returns matchingPackages.
ScanRead ==
  /\ pending.op = "searchByUrl"
  /\ LET p == pending
         found == p.matches \o LoopBody(p.url, p.names[p.pos], dbs, p.pos)
     IN  IF p.pos < Len(p.names)
         THEN /\ pending' = [p EXCEPT !.pos = @ + 1, !.matches = found,
                                      !.seen = Append(@, WouldMatch(p.url, p.names, dbs))]
              /\ UNCHANGED ret
         ELSE /\ pending' = NoPending
              /\ ret' = [op |-> "scan", arg |-> p.url, val |-> found,
                         names |-> p.names,
                         seen |-> Append(p.seen, WouldMatch(p.url, p.names, dbs))]
  /\ UNCHANGED <<catalog, dbs, svc, fakeDatabases, cache, comments>>

ScanNext ==
  \/ \E id \in StoreIds, seed \in StoreSeeds : \E gen \in SeedGenIds(seed) :
       OpenSeeded(id, seed, gen)
  \/ Close
  \/ \E pkg \in StorePackages : \E gen \in GenIds(pkg) : AddPackage(pkg, gen)
  \/ \E pkg \in StorePackages : UpdatePackage(pkg)
  \/ \E url \in ScanUrls : ScanBegin(url)
  \/ ScanRead

ScanSpec == Init /\ [][ScanNext]_vars

----------------------------------------------------------------------------
(***************************************************************************)
(* The catalog next to databases of other applications of the same origin. *)
(***************************************************************************)
\* Names of databases this system did not create: without the prefix, with
\* the prefix text at a later position, without the trailing '-', and one
\* that carries the prefix.
ForeignNames ==
  {<<"other-db">>, <<"x-", "bc-storage-", "site1">>, <<"bc-storage">>,
   <<"bc-storage-", "other">>}

\* Store ids asked for with databaseExists.
ExistsIds == StoreIds \cup {"other", "nonexistent"}

\* databaseExists(dbId): databases.some(db => db.name === `bc-storage-${dbId}`)
DatabaseExistsResult(cat, dbId) ==
  \E i \in 1..Len(cat) : cat[i] = <<"bc-storage-">> \o <<dbId>>

\* Another application creates a database.
CreateForeign(name) ==
  /\ name \notin Range(catalog)
  /\ catalog' = Append(catalog, name)
  /\ UNCHANGED <<dbs, svc, fakeDatabases, cache, comments, pending, ret>>

\* DatabaseService.getAllBackChannelDatabases()
ListAll ==
  /\ ret' = Ret("getAllBackChannelDatabases", <<>>,
                GetAllBackChannelDatabases(catalog), FALSE, 0, 1)
  /\ UNCHANGED <<catalog, dbs, svc, fakeDatabases, cache, comments, pending>>

\* DatabaseService.databaseExists(dbId)
DatabaseExists(dbId) ==
  /\ ret' = Ret("databaseExists", dbId, DatabaseExistsResult(catalog, dbId), FALSE, 0, 1)
  /\ UNCHANGED <<catalog, dbs, svc, fakeDatabases, cache, comments, pending>>

CatalogNext ==
  \/ \E id \in StoreIds : OpenSeeded(id, Null, NoId)
  \/ \E name \in ForeignNames : CreateForeign(name)
  \/ ListAll
  \/ \E dbId \in ExistsIds : DatabaseExists(dbId)

CatalogSpec == Init /\ [][CatalogNext]_vars

----------------------------------------------------------------------------
(***************************************************************************)
(* The name of the database of a DatabaseService.  A title is a sequence   *)
(* of characters; the physical name is the token 'bc-storage-' followed by *)
(* the characters of the sanitized id.                                     *)
(***************************************************************************)
Letters ==
  {"a", "b", "c", "d", "e", "f", "g", "h", "i", "j", "k", "l", "m",
   "n", "o", "p", "q", "r", "s", "t", "u", "v", "w", "x", "y", "z"}
Digits == {"0", "1", "2", "3", "4", "5", "6", "7", "8", "9"}

\* String.prototype.toLowerCase on the upper-case letters used in titles.
UpperCase == {<<"B", "b">>, <<"S", "s">>, <<"I", "i">>, <<"T", "t">>, <<"E", "e">>}
Lower(c) == IF \E u \in UpperCase : u[1] = c
            THEN (CHOOSE u \in UpperCase : u[1] = c)[2]
            ELSE c
ToLowerCase(s) == [i \in 1..Len(s) |-> Lower(s[i])]

\* .replace(/[^a-z0-9]/g, '-')
ReplaceNonAlnum(s) ==
  [i \in 1..Len(s) |-> IF s[i] \in Letters \cup Digits THEN s[i] ELSE "-"]

\* .replace(/-+/g, '-')
RECURSIVE CollapseDashes(_)
CollapseDashes(s) ==
  IF Len(s) <= 1 THEN s
  ELSE IF s[1] = "-" /\ s[2] = "-" THEN CollapseDashes(Tail(s))
  ELSE <<s[1]>> \o CollapseDashes(Tail(s))

\* .substring(0, 30)
MaxDbNameLen == 30
Substring(s, n) == SubSeq(s, 1, IF Len(s) < n THEN Len(s) ELSE n)

\* Variant of _sanitizeDbName that truncates before it collapses the runs.
SanitizeTruncateFirst(name) ==
  CollapseDashes(Substring(ReplaceNonAlnum(ToLowerCase(name)), MaxDbNameLen))

\* DatabaseService._sanitizeDbName
SanitizeDbName(name) ==
  Substring(CollapseDashes(ReplaceNonAlnum(ToLowerCase(name))), MaxDbNameLen)

\* constructor: dbId = documentTitle || this._generateDatabaseId();
\* this.dbName = `bc-storage-${this._sanitizeDbName(dbId)}`
DbNameOf(title, generated) ==
  <<"bc-storage-">> \o SanitizeDbName(IF title = <<>> THEN generated ELSE title)

\* Longest title, in characters, next to the titles that reach the limit.
MaxTitleLen == 3
TitleChars == {"a", "B", "1", "-", " ", "."}
Pad(n) == [i \in 1..n |-> "a"]
ShortTitles == SeqsUpTo(TitleChars, MaxTitleLen)
Titles ==
  ShortTitles \cup {Pad(n) \o t : n \in {MaxDbNameLen - 2, MaxDbNameLen - 1, MaxDbNameLen},
                                  t \in ShortTitles}

\* _generateDatabaseId: the last six digits of Date.now().
GeneratedDbIds == {<<"0", "0", "0", "0", "0", "1">>, <<"9", "8", "7", "6", "5", "4">>}

\* A caller about to construct a service: the title it will hand in and the
\* id the constructor would generate.
SanitizeInit ==
  /\ catalog = <<>>
  /\ dbs = [s \in StoreIds |-> {}]
  /\ svc = Null
  /\ fakeDatabases = <<>>
  /\ cache = EmptyCache
  /\ comments = [s \in StoreIds |-> {}]
  /\ pending = NoPending
  /\ \E title \in Titles, generated \in GeneratedDbIds :
       ret = [op |-> "title", arg |-> title, gen |-> generated]

\* new DatabaseService(title): the record keeps the title, the generated id
\* and this.dbName.
Construct ==
  /\ ret.op = "title"
  /\ ret' = [op |-> "construct", arg |-> ret.arg, gen |-> ret.gen,
             val |-> DbNameOf(ret.arg, ret.gen)]
  /\ UNCHANGED <<catalog, dbs, svc, fakeDatabases, cache, comments, pending>>

SanitizeNext == Construct

SanitizeSpec == SanitizeInit /\ [][SanitizeNext]_vars

----------------------------------------------------------------------------
(***************************************************************************)
(* Services constructed from titles: the title decides the database.       *)
(***************************************************************************)
\* The characters of the store ids.
Spelling ==
  [site1 |-> <<"s", "i", "t", "e", "1">>, site2 |-> <<"s", "i", "t", "e", "2">>]

\* The store whose database name is 'bc-storage-' + the sanitized id.
StoreIdOf(sanitized) == CHOOSE id \in StoreIds : Spelling[id] = sanitized

\* Titles callers hand to the constructor.
IsoTitles ==
  {<<"s", "i", "t", "e", "1">>, <<"S", "i", "t", "e", "1">>,
   <<"s", "i", "t", "e", "2">>, <<"S", "I", "T", "E", "2">>}

\* The store a service constructed from the title is connected to by init().
StoreOfTitle(title) == StoreIdOf(SanitizeDbName(title))

\* new DatabaseService(title, seed) followed by init().
OpenTitled(title, seed, gen) ==
  /\ OpenEffects(StoreOfTitle(title), seed, gen)
  /\ ret' = [op |-> "open", arg |-> StoreOfTitle(title), title |-> title,
             seed |-> seed, gen |-> gen, val |-> TRUE]
  /\ UNCHANGED <<comments, pending>>

TitleNext ==
  \/ \E title \in IsoTitles, seed \in StoreSeeds : \E gen \in SeedGenIds(seed) :
       OpenTitled(title, seed, gen)
  \/ Close
  \/ \E pkg \in StorePackages : \E gen \in GenIds(pkg) : AddPackage(pkg, gen)
  \/ \E pkg \in StorePackages : UpdatePackage(pkg)
  \/ \E c \in StoreComments : AddComment(c)
  \/ \E c \in StoreComments : UpdateComment(c)
  \/ \E c \in StoreComments : DeleteComment(c.timestamp)

TitleSpec == Init /\ [][TitleNext]_vars

----------------------------------------------------------------------------
(***************************************************************************)
(* The Store operations taken one engine request at a time.  A call        *)
(* issues a request and is suspended in its promise; the engine answers    *)
(* the request with a success or an error event; the handler attached for  *)
(* that event resolves the promise or issues the next request.             *)
(***************************************************************************)
\* getAll() of the 'comments' store: the records in ascending key order.
InKeyOrder(cs) ==
  CHOOSE s \in [1..Cardinality(cs) -> cs] :
    \A i, j \in 1..Cardinality(cs) : i < j => s[i].timestamp < s[j].timestamp

\* Variant of getAllComments that resolves null for an empty store.
GetAllCommentsNullWhenEmpty(cs, connected) ==
  IF ~connected \/ cs = {} THEN Null ELSE Some(InKeyOrder(cs))

\* getAllComments(): request.result || [], null without a connection.
GetAllCommentsResult(cs, connected) ==
  IF ~connected THEN Null ELSE Some(InKeyOrder(cs))

\* The calls made in these runs, each with its argument.
AsyncPackages == {p \in StorePackages : p.id # NoId}
AsyncCalls ==
  {[op |-> "open", data |-> "site1"], [op |-> "getPackage", data |-> Null],
   [op |-> "getAllComments", data |-> Null]}
    \cup {[op |-> o, data |-> p] : o \in {"addPackage", "updatePackage"}, p \in AsyncPackages}
    \cup {[op |-> o, data |-> c] : o \in {"addComment", "updateComment"}, c \in StoreComments}
    \cup {[op |-> o, data |-> c.timestamp] : o \in {"getComment", "deleteComment"},
                                             c \in StoreComments}

\* The first request of each operation.
FirstRequest(op) ==
  CASE op = "open" -> "open"
    [] op = "addPackage" -> "count"
    [] op = "getPackage" -> "getAll"
    [] op = "updatePackage" -> "put"
    [] op = "addComment" -> "add"
    [] op = "getComment" -> "get"
    [] op = "updateComment" -> "put"
    [] op = "deleteComment" -> "get"
    [] op = "getAllComments" -> "getAll"

\* The record of a call that has returned.
RetAsync(p, val) == [op |-> p.op, arg |-> SvcStore, data |-> p.data, val |-> val]

\* What a call returns without issuing a request: updateComment with a falsy
\* timestamp.
ReturnsAtOnce(call) == call.op = "updateComment" /\ call.data.timestamp = 0

\* A call on the caller's service (open: on a new service): up to its first
\* request.  _addPackage and updatePackage clear the cache first.
Start(call) ==
  /\ pending = NoPending
  /\ call.op # "open" => svc # Null
  /\ cache' = IF call.op \in {"addPackage", "updatePackage"} THEN ClearPackageCache ELSE cache
  /\ IF ReturnsAtOnce(call)
     THEN /\ ret' = RetAsync(call, FALSE)
          /\ UNCHANGED pending
     ELSE /\ pending' = [op |-> call.op, stage |-> FirstRequest(call.op), data |-> call.data]
          /\ UNCHANGED ret
  /\ UNCHANGED <<catalog, dbs, svc, fakeDatabases, comments>>

\* The promise resolves: the call returns val.
Resolve(val) == pending' = NoPending /\ ret' = RetAsync(pending, val)

\* The handler issues the next request.
Request(stage) == pending' = [pending EXCEPT !.stage = stage] /\ UNCHANGED ret

\* No handler is attached for the event: the promise stays unsettled and no
\* request is outstanding.
Unhandled == pending' = [pending EXCEPT !.stage = "suspended"] /\ UNCHANGED ret

\* The engine answers the outstanding request: ok is FALSE when the request
\* fails for a reason of the engine (I/O), and TRUE when the engine carries
\* it out on the records, which yields the success event or, for an add of a
\* key that is present, the error event.
Signal(ok) ==
  /\ pending.op # "none" /\ pending.stage # "suspended"
  /\ LET p == pending IN
     CASE p.op = "open" ->
            IF ok
            THEN /\ OpenEffects(p.data, Null, NoId)
                 /\ pending' = NoPending
                 /\ ret' = [op |-> "open", arg |-> p.data, data |-> p.data, val |-> TRUE]
                 /\ UNCHANGED comments
            ELSE /\ Resolve(FALSE)
                 /\ UNCHANGED <<catalog, dbs, svc, fakeDatabases, cache, comments>>
       [] p.op = "addPackage" /\ p.stage = "count" ->
            /\ IF ok /\ CheckPackagesExist(SvcRecords, TRUE)
               THEN Resolve(Null)
               ELSE Request("add")
            /\ UNCHANGED <<catalog, dbs, svc, fakeDatabases, cache, comments>>
       [] p.op = "addPackage" /\ p.stage = "add" ->
            LET a == IdbAdd(SvcRecords, p.data) IN
            /\ dbs' = IF ok THEN SetSvcRecords(a.records) ELSE dbs
            /\ Resolve(IF ok /\ a.ok THEN Some(p.data.id) ELSE Null)
            /\ UNCHANGED <<catalog, svc, fakeDatabases, cache, comments>>
       [] p.op = "getPackage" ->
            /\ IF ok /\ GetPackageResult(SvcRecords, TRUE).threw
               THEN pending' = NoPending
                    /\ ret' = [op |-> p.op, arg |-> SvcStore, data |-> p.data,
                               val |-> Null, threw |-> TRUE]
               ELSE Resolve(IF ok THEN GetPackageResult(SvcRecords, TRUE).val ELSE Null)
            /\ UNCHANGED <<catalog, dbs, svc, fakeDatabases, cache, comments>>
       [] p.op = "updatePackage" ->
            /\ dbs' = IF ok THEN SetSvcRecords(IdbPut(SvcRecords, p.data)) ELSE dbs
            /\ Resolve(ok)
            /\ UNCHANGED <<catalog, svc, fakeDatabases, cache, comments>>
       [] p.op = "addComment" ->
            LET r == AddCommentResult(SvcComments, ok, p.data) IN
            /\ comments' = SetSvcComments(r.records)
            /\ Resolve(r.val)
            /\ UNCHANGED <<catalog, dbs, svc, fakeDatabases, cache>>
       [] p.op = "getComment" ->
            /\ Resolve(GetCommentResult(SvcComments, ok, p.data))
            /\ UNCHANGED <<catalog, dbs, svc, fakeDatabases, cache, comments>>
       [] p.op = "updateComment" ->
            LET r == UpdateCommentResult(SvcComments, ok, p.data) IN
            /\ comments' = SetSvcComments(r.records)
            /\ Resolve(r.val)
            /\ UNCHANGED <<catalog, dbs, svc, fakeDatabases, cache>>
       [] p.op = "deleteComment" /\ p.stage = "get" ->
            /\ IF ~ok THEN Unhandled
               ELSE IF CommentAt(SvcComments, p.data) # {} THEN Request("delete")
               ELSE Resolve(FALSE)
            /\ UNCHANGED <<catalog, dbs, svc, fakeDatabases, cache, comments>>
       [] p.op = "deleteComment" /\ p.stage = "delete" ->
            LET r == DeleteCommentResult(SvcComments, ok, p.data) IN
            /\ comments' = SetSvcComments(r.records)
            /\ Resolve(r.val)
            /\ UNCHANGED <<catalog, dbs, svc, fakeDatabases, cache>>
       [] p.op = "getAllComments" ->
            /\ Resolve(GetAllCommentsResult(SvcComments, ok))
            /\ UNCHANGED <<catalog, dbs, svc, fakeDatabases, cache, comments>>

\* close() between two calls.
CloseIdle == pending = NoPending /\ Close

EngineSignals == \E ok \in BOOLEAN : Signal(ok)

AsyncNext ==
  \/ \E call \in AsyncCalls : Start(call)
  \/ EngineSignals
  \/ CloseIdle

AsyncSpec == Init /\ [][AsyncNext]_vars

\* The engine answers every outstanding request.
AsyncLiveSpec == AsyncSpec /\ WF_vars(EngineSignals)

----------------------------------------------------------------------------
(***************************************************************************)
(* deleteComment called with the timestamp as a string.                    *)
(***************************************************************************)
DigitChars == <<"0", "1", "2", "3", "4", "5", "6", "7", "8", "9">>
DigitValue(c) == (CHOOSE i \in 1..10 : DigitChars[i] = c) - 1

\* String(n) for a non-negative integer.
RECURSIVE DecimalString(_)
DecimalString(n) ==
  IF n < 10 THEN <<DigitChars[n + 1]>>
  ELSE DecimalString(n \div 10) \o <<DigitChars[(n % 10) + 1]>>

\* The value of the digits at the front of s, read left to right.
RECURSIVE DigitsValue(_, _)
DigitsValue(s, acc) ==
  IF s = <<>> \/ Head(s) \notin Range(DigitChars) THEN acc
  ELSE DigitsValue(Tail(s), 10 * acc + DigitValue(Head(s)))

\* Variant of parseInt that reads the first digit only.
ParseIntFirstDigit(s) ==
  IF s = <<>> \/ Head(s) \notin Range(DigitChars) THEN Null
  ELSE Some(DigitValue(Head(s)))

\* parseInt(s) on strings without sign or blanks: the number written by the
\* leading digits, NaN (no value) when there is none.
ParseInt(s) ==
  IF s = <<>> \/ Head(s) \notin Range(DigitChars) THEN Null
  ELSE Some(DigitsValue(s, 0))

\* The strings handed to deleteComment: the decimal strings of the
\* timestamps, of a two-digit number, and one that is no number.
TimestampStrings ==
  {DecimalString(t) : t \in Timestamps} \cup {DecimalString(10), <<"x">>}

\* deleteComment(s) for a string s: parseInt, then as for a number.
\* store.get(NaN) throws inside the promise, which rejects.
DeleteCommentString(s) ==
  LET n == ParseInt(s)
      r == IF n = Null \/ svc = Null
           THEN [val |-> FALSE, records |-> SvcComments]
           ELSE DeleteCommentResult(SvcComments, TRUE, CHOOSE t \in n : TRUE)
  IN
  /\ comments' = SetSvcComments(r.records)
  /\ ret' = [op |-> "deleteComment(string)", arg |-> SvcStore, data |-> s,
             val |-> r.val, threw |-> (svc # Null /\ n = Null)]
  /\ UNCHANGED <<catalog, dbs, svc, fakeDatabases, cache, pending>>

\* The comment operations of a service, on a Store opened without seed data.
CommentNext ==
  \/ \E id \in StoreIds : OpenSeeded(id, Null, NoId)
  \/ Close
  \/ \E c \in CommentInputs : AddComment(c)
  \/ \E t \in Timestamps : GetComment(t)
  \/ \E c \in CommentInputs : UpdateComment(c)
  \/ \E t \in Timestamps : DeleteComment(t)
  \/ \E str \in TimestampStrings : DeleteCommentString(str)

CommentSpec == Init /\ [][CommentNext]_vars

----------------------------------------------------------------------------
\* getAllComments() on the caller's service.
GetAllComments ==
  /\ ret' = [op |-> "getAllComments", arg |-> SvcStore,
             val |-> GetAllCommentsResult(SvcComments, svc # Null)]
  /\ UNCHANGED <<catalog, dbs, svc, fakeDatabases, cache, comments, pending>>

\* The comment operations with the listing of all comments.
ListingNext ==
  \/ \E id \in StoreIds : OpenSeeded(id, Null, NoId)
  \/ Close
  \/ \E c \in CommentInputs : AddComment(c)
  \/ \E c \in CommentInputs : UpdateComment(c)
  \/ \E t \in Timestamps : DeleteComment(t)
  \/ GetAllComments

ListingSpec == Init /\ [][ListingNext]_vars

----------------------------------------------------------------------------
\* Every operation of a handle, with close() and a new open() in between,
\* next to the resolver that fills the cache.
HandleNext ==
  \/ \E id \in StoreIds, seed \in StoreSeeds : \E gen \in SeedGenIds(seed) :
       OpenSeeded(id, seed, gen)
  \/ Close
  \/ \E pkg \in StorePackages : \E gen \in GenIds(pkg) : AddPackage(pkg, gen)
  \/ GetPackage
  \/ \E pkg \in StorePackages : UpdatePackage(pkg)
  \/ \E url \in Roots : GetActiveFeedbackPackageForUrl(url)
  \/ \E c \in StoreComments : AddComment(c)
  \/ \E c \in StoreComments : GetComment(c.timestamp)
  \/ \E c \in StoreComments : UpdateComment(c)
  \/ \E c \in StoreComments : DeleteComment(c.timestamp)
  \/ GetAllComments

HandleSpec == Init /\ [][HandleNext]_vars

----------------------------------------------------------------------------
(***************************************************************************)
(* Two calls in flight on the same Store, each on its own service: two     *)
(* _addPackage calls, or two init() calls of services constructed with     *)
(* seed data.  A call advances by one request of the engine per step, each *)
(* request in its own transaction; the steps of the two calls interleave.  *)
(***************************************************************************)
PairKinds == {"addPackage", "open"}

\* The first request of a call of the pair.
FirstStage(kind) == IF kind = "open" THEN "open" ELSE "count"

\* Both calls are made before either is answered (Promise.all, or two event
\* handlers): _addPackage clears the cache before its first await.
StartPair(kind, id, pkgA, pkgB) ==
  /\ pending = NoPending
  /\ kind = "addPackage" => Exists(id)
  /\ pending' = [op |-> "pair", kind |-> kind, store |-> id, before |-> dbs[id],
                 calls |-> <<[stage |-> FirstStage(kind), data |-> pkgA,
                              val |-> Null, wrote |-> FALSE],
                             [stage |-> FirstStage(kind), data |-> pkgB,
                              val |-> Null, wrote |-> FALSE]>>]
  /\ cache' = IF kind = "addPackage" THEN ClearPackageCache ELSE cache
  /\ UNCHANGED <<catalog, dbs, svc, fakeDatabases, comments, ret>>

\* The engine answers the outstanding request of call i and the call runs up
\* to its next request or to its return.
\*   open:  the open request; a database that does not exist is created and
\*          the seed added in onupgradeneeded (init 452-493)
\*   check: _checkPackagesExist of init (497-502); without a record
\*          _addPackage is entered, which clears the cache
\*   count: _checkPackagesExist of _addPackage (570-576)
\*   add:   store.add of _addPackage (583-596)
PairStep(i) ==
  /\ pending.op = "pair"
  /\ pending.calls[i].stage # "done"
  /\ LET p == pending
         c == p.calls[i]
         id == p.store
         Move(stage) == pending' = [p EXCEPT !.calls[i].stage = stage]
         Done(val, wrote) ==
           pending' = [p EXCEPT !.calls[i] = [stage |-> "done", data |-> c.data,
                                              val |-> val, wrote |-> wrote]]
     IN
     CASE c.stage = "open" ->
            LET created == ~Exists(id) IN
            /\ catalog' = IF created THEN Append(catalog, DbName(id)) ELSE catalog
            /\ dbs' = [dbs EXCEPT ![id] = InitRecords(created, dbs[id], Null, NoId)
                                            \cup IF created THEN {c.data} ELSE {}]
            /\ pending' = [p EXCEPT !.calls[i].stage = "check", !.calls[i].wrote = created]
            /\ UNCHANGED cache
       [] c.stage = "check" ->
            /\ IF CheckPackagesExist(dbs[id], TRUE)
               THEN Done(TRUE, c.wrote) /\ UNCHANGED cache
               ELSE Move("count") /\ cache' = ClearPackageCache
            /\ UNCHANGED <<catalog, dbs>>
       [] c.stage = "count" ->
            /\ IF CheckPackagesExist(dbs[id], TRUE)
               THEN Done(IF p.kind = "open" THEN TRUE ELSE Null, FALSE)
               ELSE Move("add")
            /\ UNCHANGED <<catalog, dbs, cache>>
       [] c.stage = "add" ->
            LET a == IdbAdd(dbs[id], c.data) IN
            /\ dbs' = [dbs EXCEPT ![id] = a.records]
            /\ Done(IF p.kind = "open" THEN TRUE
                    ELSE IF a.ok THEN Some(c.data.id) ELSE Null, a.ok)
            /\ UNCHANGED <<catalog, cache>>
  /\ UNCHANGED <<svc, fakeDatabases, comments, ret>>

\* Both calls have returned: the record keeps the records the Store held
\* when the calls were made, what each call returned (init: opened,
\* _addPackage: val) and whether it wrote.
PairSettled ==
  /\ pending.op = "pair"
  /\ \A i \in 1..2 : pending.calls[i].stage = "done"
  /\ ret' = IF pending.kind = "open"
            THEN [op |-> "pair", kind |-> pending.kind, arg |-> pending.store,
                  before |-> pending.before,
                  data |-> [i \in 1..2 |-> pending.calls[i].data],
                  opened |-> [i \in 1..2 |-> pending.calls[i].val],
                  wrote |-> [i \in 1..2 |-> pending.calls[i].wrote]]
            ELSE [op |-> "pair", kind |-> pending.kind, arg |-> pending.store,
                  before |-> pending.before,
                  data |-> [i \in 1..2 |-> pending.calls[i].data],
                  val |-> [i \in 1..2 |-> pending.calls[i].val],
                  wrote |-> [i \in 1..2 |-> pending.calls[i].wrote]]
  /\ pending' = NoPending
  /\ UNCHANGED <<catalog, dbs, svc, fakeDatabases, cache, comments>>

\* A call of the caller's own service between two pairs.
OpenIdle(id) == pending = NoPending /\ OpenSeeded(id, Null, NoId)
UpdateIdle(pkg) == pending = NoPending /\ UpdatePackage(pkg)

RaceNext ==
  \/ \E id \in StoreIds : OpenIdle(id)
  \/ \E pkg \in AsyncPackages : UpdateIdle(pkg)
  \/ \E kind \in PairKinds, id \in StoreIds, pkgA \in AsyncPackages, pkgB \in AsyncPackages :
       StartPair(kind, id, pkgA, pkgB)
  \/ \E i \in 1..2 : PairStep(i)
  \/ PairSettled

RaceSpec == Init /\ [][RaceNext]_vars

----------------------------------------------------------------------------
(***************************************************************************)
(* getActiveFeedbackPackageForUrl taken one await at a time: the cache     *)
(* lookup, the listing, one database per step, then the cache write; the   *)
(* caller's service calls updatePackage between the steps.                 *)
(***************************************************************************)
\* The record of a resolution that has returned; updated keeps the stores
\* that received an updatePackage after the scan had read them.
RetActive(url, val, updated) ==
  [op |-> "getActive", arg |-> url, val |-> val, updated |-> updated]

\* getActiveFeedbackPackageForUrl(url) up to the first database of its scan.
\* A cache hit returns at once, and so does a scan with no database.
ActiveBegin(url) ==
  LET names == GetAllBackChannelDatabases(catalog) IN
  /\ pending = NoPending
  /\ IF CacheHit(url, cache)
     THEN /\ ret' = RetActive(url, {ParseCached(s) : s \in cache.bc_package}, {})
          /\ UNCHANGED pending
     ELSE IF names = <<>>
     THEN /\ ret' = RetActive(url, Null, {})
          /\ UNCHANGED pending
     ELSE /\ pending' = [op |-> "getActive", url |-> url, names |-> names,
                         pos |-> 1, matches |-> <<>>, updated |-> {}]
          /\ UNCHANGED ret
  /\ UNCHANGED <<catalog, dbs, svc, fakeDatabases, cache, comments>>

\* The next iteration of the suspended scan; after the last one searchByUrl
\* returns, the first match is written to the cache and returned.
ActiveRead ==
  /\ pending.op = "getActive"
  /\ LET p == pending
         found == p.matches \o LoopBody(p.url, p.names[p.pos], dbs, p.pos)
     IN  IF p.pos < Len(p.names)
         THEN /\ pending' = [p EXCEPT !.pos = @ + 1, !.matches = found]
              /\ UNCHANGED <<ret, cache>>
         ELSE /\ pending' = NoPending
              /\ cache' = IF found # <<>>
                          THEN CacheEntry(found[1].packageData, found[1].dbId)
                          ELSE cache
              /\ ret' = RetActive(p.url,
                                  IF found # <<>>
                                  THEN Some([dbId |-> found[1].dbId,
                                             packageData |-> found[1].packageData])
                                  ELSE Null,
                                  p.updated)
  /\ UNCHANGED <<catalog, dbs, svc, fakeDatabases, comments>>

\* The stores the suspended scan has read.
AlreadyRead(p) == {DbIdOf(p.names[i]) : i \in 1..(p.pos - 1)}

\* updatePackage(pkg) on the caller's service while the scan is suspended.
UpdateInFlight(pkg) ==
  LET r == UpdatePackageResult(SvcRecords, svc # Null, pkg) IN
  /\ pending.op = "getActive"
  /\ svc # Null
  /\ cache' = ClearPackageCache
  /\ dbs' = SetSvcRecords(r.records)
  /\ pending' = [pending EXCEPT !.updated = @ \cup ({SvcStore} \cap AlreadyRead(pending))]
  /\ UNCHANGED <<catalog, svc, fakeDatabases, comments, ret>>

\* Packages that replace one another under the same id.
ResolvePackages ==
  {[id |-> "p1", rootURL |-> <<"https://", "a">>, name |-> "n1"],
   [id |-> "p1", rootURL |-> <<"https://", "a", "b">>, name |-> "n1"],
   [id |-> "p1", rootURL |-> <<"https://", "b">>, name |-> "n1"]}

OpenResolve(id, seed) == pending = NoPending /\ OpenSeeded(id, seed, NoId)

ResolveNext ==
  \/ \E id \in StoreIds, pkg \in ResolvePackages : OpenResolve(id, Some(pkg))
  \/ \E pkg \in ResolvePackages : UpdateIdle(pkg)
  \/ \E pkg \in ResolvePackages : UpdateInFlight(pkg)
  \/ \E url \in ScanUrls : ActiveBegin(url)
  \/ ActiveRead

ResolveSpec == Init /\ [][ResolveNext]_vars

----------------------------------------------------------------------------
(***************************************************************************)
(* The create-package listener of index.ts with the titles a user types    *)
(* and with a Store that cannot be opened or written, next to the resolver *)
(* and the package writes of the caller's service.                         *)
(***************************************************************************)
\* Titles typed into the package dialog, and store ids: the text of each.
FlowTitles == {"site1", "Site1", "site2"}
TitleText ==
  [t \in FlowTitles |-> IF t = "Site1" THEN <<"S", "i", "t", "e", "1">> ELSE Spelling[t]]

\* The store new DatabaseService(dbId) is connected to by init().
StoreOfId(dbId) == StoreIdOf(SanitizeDbName(TitleText[dbId]))

\* What the engine does to the listener's Store: nothing, the open request
\* fails (request.onerror, init() resolves false), or the put request fails.
FlowFaults == {"ok", "openFails", "writeFails"}

\* The listener: new DatabaseService(title), init(), updatePackage(packageData)
\* (neither result is looked at), then localStorage.setItem of bc_root and of
\* the package with dbId = title.
CreatePackageFlow(title, urlPrefix, gen, fault) ==
  LET pkg == [id |-> gen, rootURL |-> Origin \o urlPrefix, name |-> "n1"]
      id == StoreOfId(title)
      opened == fault # "openFails"
      created == opened /\ ~Exists(id)
      r == IF fault = "writeFails"
           THEN [val |-> FALSE, records |-> dbs[id]]
           ELSE UpdatePackageResult(dbs[id], opened, pkg)
  IN
  /\ catalog' = IF created THEN Append(catalog, DbName(id)) ELSE catalog
  /\ dbs' = [dbs EXCEPT ![id] = r.records]
  /\ cache' = CacheEntry(pkg, title)
  /\ ret' = [op |-> "createPackage", arg |-> title, store |-> id, fault |-> fault,
             pkg |-> pkg, val |-> r.val]
  /\ UNCHANGED <<svc, fakeDatabases, comments, pending>>

FlowNext ==
  \/ \E id \in StoreIds, seed \in StoreSeeds : \E gen \in SeedGenIds(seed) :
       OpenSeeded(id, seed, gen)
  \/ \E pkg \in StorePackages : \E gen \in GenIds(pkg) : AddPackage(pkg, gen)
  \/ \E pkg \in StorePackages : UpdatePackage(pkg)
  \/ \E url \in Roots : GetActiveFeedbackPackageForUrl(url)
  \/ \E title \in FlowTitles, urlPrefix \in UrlPrefixes, gen \in PkgIds, fault \in FlowFaults :
       CreatePackageFlow(title, urlPrefix, gen, fault)

FlowSpec == Init /\ [][FlowNext]_vars

----------------------------------------------------------------------------
(***************************************************************************)
(* The resolver on a catalog that also lists databases carrying the prefix *)
(* which this system did not name: the id part of the name is not in       *)
(* sanitized form, or is empty.  searchByUrl hands the id part to the      *)
(* constructor, which sanitizes it (or generates an id for an empty one)   *)
(* and opens the database of that name.                                    *)
(***************************************************************************)
\* Names with the prefix created by other scripts of the origin.
RawNames == {<<"bc-storage-", "Site1">>, <<"bc-storage-", "">>}

\* The id _generateDatabaseId yields in these runs, as a store id, and its
\* text.
GeneratedTokens == {"000001"}
GeneratedText == [g \in GeneratedTokens |-> <<"0", "0", "0", "0", "0", "1">>]

\* The seeds and the comment written in these runs.
OriginSeeds == {Null, Some([id |-> "p1", rootURL |-> <<"https://", "a">>, name |-> "n1"])}
OriginComment == [timestamp |-> 1, feedback |-> "f1"]

\* The text of an id part, and the id whose text is given.
IdText(id) ==
  IF id = "" THEN <<>>
  ELSE IF id \in FlowTitles THEN TitleText[id]
  ELSE GeneratedText[id]
IdOfText(text) == CHOOSE id \in FlowTitles \cup GeneratedTokens : IdText(id) = text

\* constructor: the name of the database new DatabaseService(dbId) opens.
ConstructedName(dbId, generated) ==
  <<"bc-storage-", IdOfText(Tail(DbNameOf(IdText(dbId), GeneratedText[generated])))>>

\* The packages of the database of a name: none unless it is a Store.
RecordsOfName(name, d) == IF DbIdOf(name) \in StoreIds THEN d[DbIdOf(name)] ELSE {}

\* searchByUrl from database i on: init() opens the constructed name, which
\* creates the database when it does not exist; getPackage reads that
\* database.  The matches and the catalog the scan leaves.
RECURSIVE ScanRaw(_, _, _, _, _, _)
ScanRaw(url, names, cat, d, generated, i) ==
  IF i > Len(names) THEN [matches |-> <<>>, catalog |-> cat]
  ELSE LET name == names[i]
           opened == ConstructedName(DbIdOf(name), generated)
           after == IF opened \in Range(cat) THEN cat ELSE Append(cat, opened)
           one == StoreMatches(url, name,
                               [x \in {DbIdOf(name)} |-> RecordsOfName(opened, d)])
           rest == ScanRaw(url, names, after, d, generated, i + 1)
       IN  [matches |-> one \o rest.matches, catalog |-> rest.catalog]

\* DatabaseService.searchByUrl(url); generated is the id Date.now() yields
\* during the call.
SearchByUrlRaw(url, generated) ==
  LET names == GetAllBackChannelDatabases(catalog)
      s == ScanRaw(url, names, catalog, dbs, generated, 1)
  IN
  /\ catalog' = s.catalog
  /\ ret' = Ret("searchByUrl", url, s.matches, FALSE, Len(names), 1)
  /\ UNCHANGED <<dbs, svc, fakeDatabases, cache, comments, pending>>

\* DatabaseService.getActiveFeedbackPackageForUrl(url)
GetActiveRaw(url, generated) ==
  LET names == GetAllBackChannelDatabases(catalog)
      s == ScanRaw(url, names, catalog, dbs, generated, 1)
  IN
  IF CacheHit(url, cache)
  THEN /\ ret' = Ret("getActive", url, {ParseCached(e) : e \in cache.bc_package},
                     FALSE, 0, 0)
       /\ UNCHANGED <<catalog, dbs, svc, fakeDatabases, cache, comments, pending>>
  ELSE /\ catalog' = s.catalog
       /\ cache' = IF s.matches # <<>>
                   THEN CacheEntry(s.matches[1].packageData, s.matches[1].dbId)
                   ELSE cache
       /\ ret' = Ret("getActive", url,
                     IF s.matches # <<>>
                     THEN Some([dbId |-> s.matches[1].dbId,
                                packageData |-> s.matches[1].packageData])
                     ELSE Null,
                     FALSE, Len(names), 1)
       /\ UNCHANGED <<dbs, svc, fakeDatabases, comments, pending>>

OriginNext ==
  \/ \E id \in StoreIds, seed \in OriginSeeds : OpenSeeded(id, seed, NoId)
  \/ \E name \in RawNames : CreateForeign(name)
  \/ AddComment(OriginComment)
  \/ \E url \in ScanUrls, generated \in GeneratedTokens : SearchByUrlRaw(url, generated)
  \/ \E url \in ScanUrls, generated \in GeneratedTokens : GetActiveRaw(url, generated)

OriginSpec == Init /\ [][OriginNext]_vars

----------------------------------------------------------------------------
(***************************************************************************)
(* The substitute-store registry.  useFakeDatabases registers one          *)
(* IDBDatabase connection object per fake database; the constructor and    *)
(* init() hand that same object to every service of that name, and close() *)
(* closes it.  For a registered name dbs and comments are the records of   *)
(* the in-memory database.  A service on a database of the engine has a    *)
(* connection of its own.                                                  *)
(***************************************************************************)
\* Whether a database of that name is registered, and its entry.
Registered(name, fdb) == \E i \in 1..Len(fdb) : fdb[i].name = name
EntryOf(name, fdb) == fdb[CHOOSE i \in 1..Len(fdb) : fdb[i].name = name]

\* Whether the connection init() gives a service on the store accepts a
\* transaction: db.transaction throws on a connection that was closed.
ConnectionOpen(id, fdb) == Registered(DbName(id), fdb) => EntryOf(DbName(id), fdb).open

\* IDBDatabase.close() on the registered connection of a store, if any.
CloseConnection(id, fdb) ==
  [i \in 1..Len(fdb) |-> IF fdb[i].name = DbName(id) THEN [fdb[i] EXCEPT !.open = FALSE]
                         ELSE fdb[i]]

\* DatabaseService.databases / getAllBackChannelDatabases: the keys of the
\* registry when it is not empty, the databases of the engine otherwise.
ListedNames(cat, fdb) ==
  IF fdb # <<>>
  THEN SelectSeq([i \in 1..Len(fdb) |-> fdb[i].name], IsBackChannelName)
  ELSE GetAllBackChannelDatabases(cat)

\* getPackage() of a service that init() has connected to the store: the
\* promise rejects when db.transaction throws.
HandleGetPackage(id, d, fdb) ==
  IF ConnectionOpen(id, fdb) THEN GetPackageResult(d[id], TRUE)
  ELSE [threw |-> TRUE, val |-> Null]

\* addComment(c) of such a service: what it resolves to, or that it rejects,
\* and the records it leaves.
HandleAddComment(id, cs, fdb, c) ==
  IF ConnectionOpen(id, fdb)
  THEN LET r == AddCommentResult(cs[id], TRUE, c)
       IN  [threw |-> FALSE, val |-> r.val, records |-> r.records]
  ELSE [threw |-> TRUE, val |-> Null, records |-> cs[id]]

\* The finally block of the loop body: dbService.close().
AfterLoopBody(id, fdb) == CloseConnection(id, fdb)

\* searchByUrl from database i on: the matches and the registry it leaves.
\* A database whose getPackage rejects is skipped.
RECURSIVE ScanRegistry(_, _, _, _, _)
ScanRegistry(url, names, d, fdb, i) ==
  IF i > Len(names) THEN [matches |-> <<>>, registry |-> fdb]
  ELSE LET id == DbIdOf(names[i])
           one == IF HandleGetPackage(id, d, fdb).threw THEN <<>>
                  ELSE StoreMatches(url, names[i], d)
           rest == ScanRegistry(url, names, d, AfterLoopBody(id, fdb), i + 1)
       IN  [matches |-> one \o rest.matches, registry |-> rest.registry]

\* searchByUrl(url) for a non-empty pattern.
SearchByUrlRegistry(url, cat, d, fdb) ==
  ScanRegistry(url, ListedNames(cat, fdb), d, fdb, 1)

\* The fake data of a page: the databases it defines, each with the record
\* of its 'packages' store.
FakeData ==
  {<<[id |-> "site1", pkg |-> [id |-> "p1", rootURL |-> <<"https://", "a">>, name |-> "n1"]]>>,
   <<[id |-> "site1", pkg |-> [id |-> "p1", rootURL |-> <<"https://", "a">>, name |-> "n1"]],
     [id |-> "site2", pkg |-> [id |-> "p2", rootURL |-> <<"https://", "a", "b">>, name |-> "n1"]]>>}

\* initBackChannel with window.fakeData: loadFakeDatabasesFromJson creates
\* the in-memory databases and useFakeDatabases registers their connections.
UseFakeDatabases(defs) ==
  /\ fakeDatabases = <<>>
  /\ catalog = <<>>
  /\ fakeDatabases' = [i \in 1..Len(defs) |-> [name |-> DbName(defs[i].id), open |-> TRUE]]
  /\ dbs' = [s \in StoreIds |->
               {defs[i].pkg : i \in {j \in 1..Len(defs) : defs[j].id = s}}]
  /\ ret' = [op |-> "useFakeDatabases", arg |-> defs]
  /\ UNCHANGED <<catalog, svc, cache, comments, pending>>

\* new DatabaseService(id, seed) followed by init(): for a registered name
\* init() takes the registered connection and returns before it looks at
\* the seed.
OpenHandle(id, seed) ==
  /\ IF Registered(DbName(id), fakeDatabases)
     THEN svc' = Some(id) /\ UNCHANGED <<catalog, dbs, cache, fakeDatabases>>
     ELSE OpenEffects(id, seed, NoId)
  /\ ret' = [op |-> "open", arg |-> id, seed |-> seed, val |-> TRUE]
  /\ UNCHANGED <<comments, pending>>

\* close() on the caller's service.
CloseHandle ==
  /\ svc # Null
  /\ svc' = Null
  /\ fakeDatabases' = CloseConnection(SvcStore, fakeDatabases)
  /\ ret' = [op |-> "close", arg |-> SvcStore]
  /\ UNCHANGED <<catalog, dbs, cache, comments, pending>>

\* getPackage() on the caller's service.
HandleReadsPackage ==
  LET r == HandleGetPackage(SvcStore, dbs, fakeDatabases) IN
  /\ svc # Null
  /\ ret' = [op |-> "getPackage", arg |-> SvcStore, val |-> r.val, threw |-> r.threw]
  /\ UNCHANGED <<catalog, dbs, svc, fakeDatabases, cache, comments, pending>>

\* addComment(c) on the caller's service.
HandleWritesComment(c) ==
  LET r == HandleAddComment(SvcStore, comments, fakeDatabases, c) IN
  /\ svc # Null
  /\ comments' = [comments EXCEPT ![SvcStore] = r.records]
  /\ ret' = [op |-> "addComment", arg |-> SvcStore, data |-> c, val |-> r.val,
             threw |-> r.threw]
  /\ UNCHANGED <<catalog, dbs, svc, fakeDatabases, cache, pending>>

\* DatabaseService.searchByUrl(url), called directly.
SearchRegistry(url) ==
  LET s == SearchByUrlRegistry(url, catalog, dbs, fakeDatabases) IN
  /\ fakeDatabases' = s.registry
  /\ ret' = [op |-> "searchByUrl", arg |-> url, val |-> s.matches]
  /\ UNCHANGED <<catalog, dbs, svc, cache, comments, pending>>

RegistryNext ==
  \/ \E defs \in FakeData : UseFakeDatabases(defs)
  \/ \E id \in StoreIds, seed \in OriginSeeds : OpenHandle(id, seed)
  \/ CloseHandle
  \/ HandleReadsPackage
  \/ HandleWritesComment(OriginComment)
  \/ \E url \in ScanUrls : SearchRegistry(url)

RegistrySpec == Init /\ [][RegistryNext]_vars

----------------------------------------------------------------------------
(***************************************************************************)
(* The cache write of getActiveFeedbackPackageForUrl when localStorage     *)
(* refuses it.  setItem raises (QuotaExceededError, or a SecurityError     *)
(* where storage is blocked) at the first item or at the second; both      *)
(* calls stand inside the try block of the method.                         *)
(***************************************************************************)
WriteFaults == {"ok", "rootThrows", "packageThrows"}

\* db.ts 334-340: setItem('bc_root', ...) then setItem('bc_package', ...);
\* an item whose setItem raised keeps its old value, and the statements
\* after the raise are not run.
SetItems(c, pkg, dbId, wf) ==
  IF wf = "rootThrows" THEN [cache |-> c, threw |-> TRUE]
  ELSE IF wf = "packageThrows"
  THEN [cache |-> [c EXCEPT !.bc_root = Some(pkg.rootURL)], threw |-> TRUE]
  ELSE [cache |-> CacheEntry(pkg, dbId), threw |-> FALSE]

\* What the body of the try block leaves: the matches of the scan (none
\* when the cache answered), the value returned, whether it raised, and
\* the cache.
ActiveWriteTry(url, cat, d, c, wf) ==
  IF CacheHit(url, c)
  THEN [scanned |-> <<>>, val |-> {ParseCached(s) : s \in c.bc_package},
        threw |-> FALSE, cache |-> c]
  ELSE LET m == SearchByUrlResult(url, cat, d) IN
       IF m # <<>>
       THEN LET w == SetItems(c, m[1].packageData, m[1].dbId, wf) IN
            [scanned |-> m,
             val |-> IF w.threw THEN Null
                     ELSE Some([dbId |-> m[1].dbId, packageData |-> m[1].packageData]),
             threw |-> w.threw, cache |-> w.cache]
       ELSE [scanned |-> m, val |-> Null, threw |-> FALSE, cache |-> c]

\* getActiveFeedbackPackageForUrl(url) with a cache that may refuse the
\* write: the outer catch turns the raise into null.
ActiveWrite(url, cat, d, c, wf) ==
  IF url = <<>> THEN [scanned |-> <<>>, val |-> Null, threw |-> FALSE, cache |-> c]
  ELSE CatchToNull(ActiveWriteTry(url, cat, d, c, wf))

GetActiveWriting(url, wf) ==
  LET r == ActiveWrite(url, catalog, dbs, cache, wf) IN
  /\ cache' = r.cache
  /\ ret' = [op |-> "getActive", arg |-> url, write |-> wf, scanned |-> r.scanned,
             val |-> r.val, threw |-> r.threw]
  /\ UNCHANGED <<catalog, dbs, svc, fakeDatabases, comments, pending>>

\* DatabaseService.clearPackageCache(), called by the page.
ClearCacheCall ==
  /\ cache' = ClearPackageCache
  /\ ret' = Ret("clearPackageCache", "", Null, FALSE, 0, 0)
  /\ UNCHANGED <<catalog, dbs, svc, fakeDatabases, comments, pending>>

WriteNext ==
  \/ \E title \in StoreIds, urlPrefix \in UrlPrefixes, gen \in PkgIds :
       CreatePackage(title, urlPrefix, gen)
  \/ ClearCacheCall
  \/ \E url \in FaultUrls, wf \in WriteFaults : GetActiveWriting(url, wf)

WriteSpec == Init /\ [][WriteNext]_vars

----------------------------------------------------------------------------
\* The single record of a packages store, where it holds exactly one.
SolePackage(pkgs) == CHOOSE p \in pkgs : TRUE
CachedEntries == {ParseCached(e) : e \in cache.bc_package}
\* What the spec calls the prefix relation: raw, or with the protocol stripped.
PrefixRelation(u, r) == StartsWith(u, r) \/ StartsWith(NormalizeUrl(u), NormalizeUrl(r))

\* C1: in every reachable state every Store holds at most one Package record.
C1_OnePackagePerStore == \A s \in StoreIds : Cardinality(dbs[s]) <= 1

\* C2: addPackage on a Store that already holds a Package returns null without
\* raising, and the Store's records are the same afterwards.
C2_AddPackageRejected ==
  [][(ret'.op = "addPackage" /\ SvcRecords # {})
       => (ret'.val = Null /\ ~ret'.threw /\ SvcRecords' = SvcRecords)]_vars

C2_Witness ==
  /\ ret.op = "addPackage" /\ ret.val = Null
  /\ svc # Null /\ Cardinality(SvcRecords) = 1

\* C3: getPackage on an open Store returns null when the packages collection
\* is empty, the record when it holds exactly one, and rejects (no record, and
\* not the null of "not found") when it holds more than one.
C3_GetPackage ==
  (ret.op = "getPackage" /\ svc # Null) =>
    LET pkgs == SvcRecords IN
    /\ Cardinality(pkgs) = 0 => (ret.val = Null /\ ~ret.threw)
    /\ Cardinality(pkgs) = 1 => (ret.val = {SolePackage(pkgs)} /\ ~ret.threw)
    /\ Cardinality(pkgs) > 1 => (ret.threw /\ ret.val = Null)

C3_Witness ==
  ret.op = "getPackage" /\ svc # Null /\ ret.threw /\ Cardinality(SvcRecords) > 1

\* C4: searchByUrl(u) includes a cataloged Store whose Package has root r
\* if and only if u starts with r or normalize(u) starts with normalize(r).
C4_PrefixProperty ==
  [][(ret'.op = "searchByUrl" /\ ~ret'.threw) =>
       \A s \in StoreIds :
         (Exists(s) /\ Cardinality(dbs[s]) = 1 /\ SolePackage(dbs[s]).rootURL # NoRoot) =>
           ((\E i \in 1..Len(ret'.val) : ret'.val[i].dbId = s)
              <=> PrefixRelation(ret'.arg, SolePackage(dbs[s]).rootURL))]_vars

\* The step from a getActiveFeedbackPackageForUrl(u) that returned Store S to
\* an updatePackage made through a service connected to S.
UpdateAfterResolved ==
  /\ ret.op = "getActive" /\ ret.val # Null
  /\ ret.val = CachedEntries
  /\ ret'.op = "updatePackage" /\ svc # Null
  /\ \A x \in ret.val : x.dbId = ret'.arg

\* C5 as stated: after getActiveFeedbackPackageForUrl(u) has returned Store
\* S, a completed updatePackage on S makes the next resolution of u return
\* S's current Package, or null if S no longer matches u.
C5_ReflectsUpdatedStore ==
  [][UpdateAfterResolved =>
       LET u == ret.arg
           s == ret'.arg
           r == ActiveResult(u, catalog', dbs', cache')
           sMatches == StoreMatches(u, DbName(s), dbs') # <<>>
       IN  /\ sMatches => r = {[dbId |-> s, packageData |-> SolePackage(dbs'[s])]}
           /\ ~sMatches => r = Null]_vars

\* C5 as amended: updatePackage leaves no cache entry, and the next
\* resolution of u never returns a package that is not the current Package
\* of the Store it names (so never S's pre-update package); it returns the
\* first cataloged Store whose Package matches u, which is S only if no
\* matching Store precedes S, and null only if no Store matches.
C5_NoStaleAfterUpdate ==
  [][/\ ret'.op = "updatePackage" => cache' = EmptyCache
     /\ UpdateAfterResolved =>
          LET u == ret.arg
              r == ActiveResult(u, catalog', dbs', cache')
              names == GetAllBackChannelDatabases(catalog')
              matching == {i \in 1..Len(names) :
                             \E p \in dbs'[DbIdOf(names[i])] :
                                /\ dbs'[DbIdOf(names[i])] = {p}
                                /\ p.rootURL # NoRoot /\ UrlMatches(u, p.rootURL)}
          IN  /\ \A x \in r : /\ dbs'[x.dbId] = {x.packageData}
                              /\ \E i \in matching :
                                   /\ names[i] = DbName(x.dbId)
                                   /\ \A j \in matching : i <= j
              /\ r = Null <=> matching = {}]_vars

\* An update of the resolved Store after which a Store that precedes it in
\* the catalog answers.
C5_Witness ==
  /\ ret.op = "updatePackage" /\ ret.val = TRUE /\ cache = EmptyCache
  /\ Len(catalog) = 2 /\ ret.arg = DbIdOf(catalog[2])
  /\ Cardinality(dbs[ret.arg]) = 1
  /\ \E u \in Urls :
       /\ StoreMatches(u, DbName(ret.arg), dbs) # <<>>
       /\ \E x \in ActiveResult(u, catalog, dbs, cache) : x.dbId = DbIdOf(catalog[1])

\* C6: right after a call that created or changed a Package (addPackage,
\* updatePackage, the seed write of open()), the cache holds no entry.
C6_CacheClearedAfterPackageWrite ==
  [][(ret'.op \in {"addPackage", "updatePackage", "init"} /\ dbs' # dbs)
       => cache' = EmptyCache]_vars

\* C7: the cache lookup of getActiveFeedbackPackageForUrl(url) is a hit (the
\* call is answered without a scan) if and only if an entry exists and url
\* stands in the prefix relation to the cached root.
C7_CacheHitIffPrefix ==
  [][(ret'.op = "getActive" /\ ret'.arg # <<>>) =>
       (ret'.listed = 0 <=>
          (cache.bc_package # Null /\ \E r \in cache.bc_root : PrefixRelation(ret'.arg, r)))]_vars

\* C8: a getActiveFeedbackPackageForUrl answered from the cache opens no
\* Store, does not enumerate the catalog, and changes no Store and no cache
\* entry.
C8_CacheAnswerTouchesNothing ==
  [][(ret'.op = "getActive" /\ ret'.arg # <<>> /\ CacheHit(ret'.arg, cache))
       => /\ ret'.opens = 0 /\ ret'.listed = 0
          /\ ret'.val = CachedEntries
          /\ UNCHANGED <<catalog, dbs, svc, fakeDatabases, cache, comments>>]_vars

C8_Witness ==
  /\ ret.op = "getActive" /\ ret.val # Null /\ ret.listed = 0 /\ ret.opens = 0
  /\ Len(catalog) = 2 /\ CacheHit(ret.arg, cache) /\ ret.val = CachedEntries

\* C9: a getActiveFeedbackPackageForUrl(url) that scanned and found a match
\* leaves a cache entry with the first match's rootURL, Package and store id,
\* and a further call for url is answered from the cache with an equal store
\* id and an equal Package.
C9_ScanResultIsCached ==
  [][(ret'.op = "getActive" /\ ret'.listed = 1 /\ ret'.val # Null)
       => LET u == ret'.arg
              first == SearchByUrlResult(u, catalog, dbs)[1]
          IN  /\ ret'.val = {[dbId |-> first.dbId, packageData |-> first.packageData]}
              /\ cache'.bc_root = {first.packageData.rootURL}
              /\ CachedEntries' = ret'.val
              /\ ActiveListed(u, cache') = 0
              /\ ActiveResult(u, catalog', dbs', cache') = ret'.val]_vars

C9_Witness ==
  /\ ret.op = "getActive" /\ ret.listed = 1 /\ ret.val # Null
  /\ Len(catalog) = 2 /\ ret.val = CachedEntries

\* C10: a getActiveFeedbackPackageForUrl that finds no match returns null and
\* leaves the cache exactly as it was.
C10_NegativeResultNotCached ==
  [][(ret'.op = "getActive" /\ ret'.arg # <<>> /\ ~CacheHit(ret'.arg, cache)
        /\ \A s \in StoreIds : \A p \in dbs[s] :
             dbs[s] = {p} => (p.rootURL = NoRoot \/ ~UrlMatches(ret'.arg, p.rootURL)))
       => (ret'.val = Null /\ cache' = cache)]_vars

C10_Witness ==
  /\ ret.op = "getActive" /\ ret.val = Null /\ ret.listed = 1
  /\ cache # EmptyCache /\ \E s \in StoreIds : Cardinality(dbs[s]) = 1

\* The positions, in catalog enumeration order, of the Stores whose single
\* Package has a root that the url matches.
MatchingPositions(u, cat, d) ==
  LET names == GetAllBackChannelDatabases(cat)
  IN  {i \in 1..Len(names) :
         \E p \in d[DbIdOf(names[i])] :
            /\ d[DbIdOf(names[i])] = {p}
            /\ p.rootURL # NoRoot /\ UrlMatches(u, p.rootURL)}

\* C11: with an empty Cache and several Stores matching the url,
\* getActiveFeedbackPackageForUrl returns the matching Store that the Catalog
\* enumerates first, which is element 0 of searchByUrl's result.
C11_FirstCatalogMatch ==
  [][(ret'.op = "getActive" /\ ret'.arg # <<>> /\ cache = EmptyCache
        /\ MatchingPositions(ret'.arg, catalog, dbs) # {}) =>
       LET u == ret'.arg
           names == GetAllBackChannelDatabases(catalog)
           matching == MatchingPositions(u, catalog, dbs)
           first == CHOOSE i \in matching : \A j \in matching : i <= j
           found == SearchByUrlResult(u, catalog, dbs)
       IN  /\ ret'.val = {[dbId |-> DbIdOf(names[first]),
                           packageData |-> SolePackage(dbs[DbIdOf(names[first])])]}
           /\ ret'.val = {[dbId |-> found[1].dbId, packageData |-> found[1].packageData]}]_vars

\* Both Stores match, the Catalog lists site2 first, and site2 is returned.
C11_Witness ==
  /\ ret.op = "getActive" /\ ret.listed = 1
  /\ catalog = <<DbName("site2"), DbName("site1")>>
  /\ MatchingPositions(ret.arg, catalog, dbs) = {1, 2}
  /\ dbs["site1"] # dbs["site2"]
  /\ \E x \in ret.val : x.dbId = "site2"

\* The Stores, by catalog position, that a scan in environment env can read
\* and whose single Package matches the url.
ReadableMatches(u, cat, d, env) ==
  {i \in MatchingPositions(u, cat, d) :
     env.fault[DbIdOf(GetAllBackChannelDatabases(cat)[i])] = "ok"}

\* C12: getActiveFeedbackPackageForUrl never raises: whatever the url, the
\* Catalog, the Stores, the Cache and whatever fails, it returns null or one
\* (store id, package) result.
C12_NeverRaises ==
  ret.op = "getActive" =>
    /\ ~ret.threw
    /\ \/ ret.val = Null
       \/ \E x \in ret.val :
            /\ ret.val = {x}
            /\ x.dbId \in StoreIds
            /\ x.packageData \in [id : PkgIds, rootURL : Roots, name : Names]

\* The Catalog enumeration failed although a Store matches: null, no error.
C12_Witness ==
  /\ ret.op = "getActive" /\ ret.env.list /\ ret.listed = 1
  /\ ret.val = Null /\ ~ret.threw
  /\ MatchingPositions(ret.arg, catalog, dbs) # {}

\* C13: with an unparsable bc_package the call returns what the full scan
\* returns (null if the scan raises), and a match found by the scan replaces
\* the corrupt entry by a valid entry for that match.
C13_CorruptEntryIsMiss ==
  [][(ret'.op = "getActive" /\ ret'.arg # <<>> /\ ret'.env.engine /\ ~ret'.env.cacheRead
        /\ cache.bc_package = {Corrupt}) =>
       LET scan == SearchByUrlEnv(ret'.arg, catalog, dbs, cache, ret'.env)
       IN  IF scan.threw \/ scan.val = <<>>
           THEN ret'.val = Null /\ cache' = cache
           ELSE /\ ret'.val = {[dbId |-> scan.val[1].dbId,
                                packageData |-> scan.val[1].packageData]}
                /\ cache'.bc_root = {scan.val[1].packageData.rootURL}
                /\ \A e \in cache'.bc_package : Parses(e)
                /\ CachedEntries' = ret'.val]_vars

\* The parse failed on a hit, the scan found a match, and the cache now holds
\* a valid entry for it.
C13_Witness ==
  /\ ret.op = "getActive" /\ ret.warned /\ ret.listed = 1
  /\ ret.val # Null
  /\ \A e \in cache.bc_package : Parses(e)
  /\ ret.val = CachedEntries

\* C14: a Store that cannot be opened or read, or that holds more than one
\* Package, contributes no match and does not abort searchByUrl: the result
\* holds exactly the other cataloged Stores whose Package matches the url.
C14_BadStoreSkipped ==
  (ret.op = "searchByUrl" /\ ret.arg # <<>> /\ ret.env.engine /\ ~ret.env.list) =>
    LET names == GetAllBackChannelDatabases(catalog)
        good == ReadableMatches(ret.arg, catalog, dbs, ret.env)
    IN  /\ ~ret.threw
        /\ Len(ret.val) = Cardinality(good)
        /\ \A i \in good : \E k \in 1..Len(ret.val) :
             /\ ret.val[k].dbId = DbIdOf(names[i])
             /\ ret.val[k].dbName = names[i]
             /\ ret.val[k].packageData = SolePackage(dbs[DbIdOf(names[i])])

\* The first cataloged Store matches but its read throws; the second is
\* still returned.
C14_Witness ==
  /\ ret.op = "searchByUrl" /\ Len(catalog) = 2
  /\ MatchingPositions(ret.arg, catalog, dbs) = {1, 2}
  /\ ret.env.fault[DbIdOf(catalog[1])] = "readThrows"
  /\ Len(ret.val) = 1 /\ ret.val[1].dbId = DbIdOf(catalog[2])

\* C15: when searchByUrl returns (called directly or by the resolver), every
\* connection it obtained has been closed.
C15_ScanClosesConnections ==
  ret.op \in {"searchByUrl", "getActive"} => ret.closed = ret.handles

\* Two connections were obtained, one Store's read raised (more than one
\* Package), the other matched, and both are closed.
C15_Witness ==
  /\ ret.op = "searchByUrl" /\ ret.handles = 2 /\ ret.closed = 2
  /\ Len(ret.val) = 1
  /\ \E s \in StoreIds : Cardinality(dbs[s]) > 1

\* C16: without a persistence engine open() returns false and creates
\* nothing, and getActiveFeedbackPackageForUrl returns null without
\* enumerating the Catalog, opening a Store or changing the Cache, whatever
\* the Cache holds.
C16_NoEngine ==
  [][/\ (ret'.op = "getActive" /\ ~ret'.env.engine) =>
          /\ ret'.val = Null /\ ~ret'.threw
          /\ ret'.listed = 0 /\ ret'.opens = 0 /\ ret'.handles = 0
          /\ UNCHANGED <<catalog, dbs, svc, fakeDatabases, cache, comments>>
     /\ (ret'.op = "init" /\ ~ret'.env.engine) =>
          /\ ret'.val = FALSE
          /\ UNCHANGED <<catalog, dbs, svc, fakeDatabases, cache, comments>>]_vars

\* No engine, and the Cache holds a valid entry that answers the url.
C16_Witness ==
  /\ ret.op = "getActive" /\ ~ret.env.engine /\ ret.val = Null
  /\ CacheHit(ret.arg, cache) /\ \A e \in cache.bc_package : Parses(e)
  /\ \E x \in CachedEntries : dbs[x.dbId] = {x.packageData}

----------------------------------------------------------------------------
\* C17: on an open Store, addComment(c) with a timestamp the Store does not
\* hold returns c.timestamp, and a getComment(c.timestamp) that follows it
\* returns a record equal to c; a getComment(t) that follows deleteComment(t)
\* returns null.
C17_CommentRoundTrip ==
  [][/\ (ret'.op = "addComment" /\ svc # Null
           /\ CommentAt(SvcComments, ret'.data.timestamp) = {})
        => ret'.val = Some(ret'.data.timestamp)
     /\ (ret.op = "addComment" /\ ret.val # Null
           /\ ret'.op = "getComment" /\ ret'.data = ret.data.timestamp)
        => ret'.val = Some(ret.data)
     /\ (ret.op = "deleteComment"
           /\ ret'.op = "getComment" /\ ret'.data = ret.data)
        => ret'.val = Null]_vars

\* A deleteComment that found the comment and removed it.
C17_Witness ==
  /\ ret.op = "deleteComment" /\ ret.val = TRUE /\ svc # Null
  /\ CommentAt(comments[ret.arg], ret.data) = {}

\* C18: addComment with a timestamp the open Store already holds returns
\* null and leaves every comment as it was; an addComment with a fresh
\* timestamp that follows the refused one succeeds.
C18_DuplicateTimestampRefused ==
  [][/\ (ret'.op = "addComment" /\ svc # Null
           /\ CommentAt(SvcComments, ret'.data.timestamp) # {})
        => (ret'.val = Null /\ comments' = comments)
     /\ (ret.op = "addComment" /\ ret.val = Null /\ svc # Null
           /\ ret'.op = "addComment"
           /\ CommentAt(SvcComments, ret'.data.timestamp) = {})
        => (/\ ret'.val = Some(ret'.data.timestamp)
            /\ comments' = [comments EXCEPT ![SvcStore] = @ \cup {ret'.data}])]_vars

\* A refused addComment whose timestamp is held by a different comment,
\* next to a comment with another timestamp.
C18_Witness ==
  /\ ret.op = "addComment" /\ ret.val = Null /\ svc # Null
  /\ CommentAt(comments[ret.arg], ret.data.timestamp) # {}
  /\ ret.data \notin comments[ret.arg]
  /\ Cardinality(comments[ret.arg]) > 1

----------------------------------------------------------------------------
\* C19: a call of addPackage or addComment that returns null, or of
\* updatePackage, updateComment or deleteComment that returns false, leaves
\* the packages and the comments of every Store and the cache entry exactly
\* as they were before the call.
C19_FailedCallHasNoEffect ==
  [][(\/ ret'.op \in {"addPackage", "addComment"} /\ ret'.val = Null
      \/ ret'.op \in {"updatePackage", "updateComment", "deleteComment"}
           /\ ret'.val = FALSE)
     => (dbs' = dbs /\ comments' = comments /\ cache' = cache)]_vars

----------------------------------------------------------------------------
\* The seed as the constructor keeps it: with the generated id if it had none.
SeedWithId(seed, gen) ==
  LET p == CHOOSE x \in seed : TRUE IN
  [p EXCEPT !.id = IF p.id = NoId THEN gen ELSE p.id]

\* C20: open() with seed data leaves a Store whose packages were empty
\* holding exactly the seed, with a generated id if it had none, and leaves
\* the packages of a non-empty Store unchanged; open() without seed data
\* changes no packages; an open() that repeats an open() of the same Store
\* adds no package; no other Store is touched.
C20_OpenSeedsEmptyStoreOnly ==
  [][ret'.op = "open" =>
       LET id == ret'.arg
           seed == ret'.seed
       IN  /\ \A s \in StoreIds \ {id} : dbs'[s] = dbs[s]
           /\ seed = Null => dbs'[id] = dbs[id]
           /\ (seed # Null /\ dbs[id] = {}) =>
                /\ dbs'[id] = {SeedWithId(seed, ret'.gen)}
                /\ \A p \in dbs'[id] : p.id # NoId
           /\ dbs[id] # {} => dbs'[id] = dbs[id]
           /\ (ret.op = "open" /\ ret.arg = id
                 /\ (ret.seed # Null \/ seed = Null)) => dbs' = dbs]_vars

\* An open() whose seed had no id, on a Store that now holds exactly that
\* seed under the generated id.
C20_Witness ==
  /\ ret.op = "open" /\ ret.seed # Null
  /\ \A p \in ret.seed : p.id = NoId
  /\ ret.gen # NoId
  /\ dbs[ret.arg] = {SeedWithId(ret.seed, ret.gen)}

----------------------------------------------------------------------------
\* C21: each iteration of an interleaved searchByUrl(u) scan evaluates the
\* Store it reads as the writes completed so far have left it: if the
\* Store's Package has a root that u matches, the Store is appended to the
\* result, whatever the Stores read earlier held when they were read;
\* otherwise the result stays as it was.
C21_ScanSeesCompletedWrites ==
  [][(pending.op = "searchByUrl" /\ pending' # pending) =>
       LET p == pending
           name == p.names[p.pos]
           k == DbIdOf(name)
           hit == \E q \in dbs[k] :
                    /\ dbs[k] = {q}
                    /\ q.rootURL # NoRoot /\ UrlMatches(p.url, q.rootURL)
           out == IF pending'.op = "searchByUrl" THEN pending'.matches ELSE ret'.val
       IN  /\ hit => out = Append(p.matches,
                                  [dbId |-> k, dbName |-> name,
                                   packageData |-> SolePackage(dbs[k])])
           /\ ~hit => out = p.matches]_vars

\* A finished scan of two Stores: the second did not match when the first
\* was read, matched when its turn came, and is in the result.
C21_Witness ==
  /\ ret.op = "scan" /\ Len(ret.names) = 2
  /\ 2 \notin ret.seen[1] /\ 2 \in ret.seen[2]
  /\ \E i \in 1..Len(ret.val) : ret.val[i].dbName = ret.names[2]

----------------------------------------------------------------------------
\* The j-th smallest element of a set of positions.
NthOf(M, j) == CHOOSE i \in M : Cardinality({x \in M : x < i}) = j - 1

\* C22: searchByUrl(u) returns one (store id, store name, package) triple per
\* Store whose Package has a root that u matches, in the order the Catalog
\* enumerates the Stores; the store name is the cataloged name and the store
\* id is that name without the 'bc-storage-' prefix.
C22_SearchByUrlTriples ==
  [][(ret'.op = "searchByUrl" /\ ~ret'.threw) =>
       LET u == ret'.arg
           names == GetAllBackChannelDatabases(catalog)
           matching == MatchingPositions(u, catalog, dbs)
           found == ret'.val
       IN  /\ Len(found) = Cardinality(matching)
           /\ \A j \in 1..Len(found) :
                LET i == NthOf(matching, j) IN
                /\ found[j].dbName = names[i]
                /\ <<"bc-storage-", found[j].dbId>> = names[i]
                /\ found[j].packageData = SolePackage(dbs[found[j].dbId])]_vars

\* A search with two matching Stores where the Catalog lists site2 first:
\* two triples, site2 before site1.
C22_Witness ==
  /\ ret.op = "searchByUrl" /\ Len(ret.val) = 2
  /\ catalog = <<DbName("site2"), DbName("site1")>>
  /\ ret.val[1].dbId = "site2" /\ ret.val[2].dbId = "site1"
  /\ ret.val[1].packageData # ret.val[2].packageData

----------------------------------------------------------------------------
\* C23: getAllBackChannelDatabases returns every database name of the engine
\* that starts with 'bc-storage-', each once, and no other name;
\* databaseExists(id) is true exactly when a database named
\* 'bc-storage-' + id is present.
C23_CatalogIsPrefixedDatabases ==
  [][/\ (ret' # ret /\ ret'.op = "getAllBackChannelDatabases") =>
          /\ \A n \in Range(catalog) \cup Range(ret'.val) :
               n \in Range(ret'.val) <=> (n \in Range(catalog) /\ n[1] = "bc-storage-")
          /\ Len(ret'.val) = Cardinality(Range(ret'.val))
     /\ (ret' # ret /\ ret'.op = "databaseExists") =>
          (ret'.val <=> \E n \in Range(catalog) :
                          Len(n) = 2 /\ n[1] = "bc-storage-" /\ n[2] = ret'.arg)]_vars

\* A listing of an engine that holds a Store, a database without the prefix
\* and one with the prefix text inside its name.
C23_Witness ==
  /\ ret.op = "getAllBackChannelDatabases"
  /\ ret.val = GetAllBackChannelDatabases(catalog)
  /\ DbName("site1") \in Range(ret.val)
  /\ <<"other-db">> \in Range(catalog)
  /\ <<"x-", "bc-storage-", "site1">> \in Range(catalog)
  /\ Len(ret.val) < Len(catalog)

----------------------------------------------------------------------------
\* The positions of a lower-cased title that survive sanitization: every
\* alphanumeric character and the first character of every run of others.
KeptPositions(low) ==
  {i \in 1..Len(low) :
     \/ low[i] \in Letters \cup Digits
     \/ i = 1
     \/ low[i - 1] \in Letters \cup Digits}

\* C25: the database name of a service constructed from a title is
\* 'bc-storage-' followed by the title lower-cased, with every run of
\* non-alphanumeric characters replaced by one '-', cut to 30 characters;
\* the sanitized id holds only characters of [a-z0-9-], no two adjacent '-',
\* and at most 30 characters.
C25_SanitizedStoreName ==
  ret.op = "construct" =>
    LET id == Tail(ret.val)
        low == [i \in 1..Len(ret.arg) |-> Lower(ret.arg[i])]
        kept == KeptPositions(low)
    IN  /\ ret.val[1] = "bc-storage-"
        /\ ret.arg # <<>> =>
             /\ Len(id) = IF Cardinality(kept) < 30 THEN Cardinality(kept) ELSE 30
             /\ \A j \in 1..Len(id) :
                  LET i == NthOf(kept, j) IN
                  id[j] = IF low[i] \in Letters \cup Digits THEN low[i] ELSE "-"
        /\ \A j \in 1..Len(id) : id[j] \in Letters \cup Digits \cup {"-"}
        /\ \A j \in 1..(Len(id) - 1) : ~(id[j] = "-" /\ id[j + 1] = "-")
        /\ Len(id) <= 30

\* A title longer than 30 characters with an upper-case letter and a run of
\* two separators: its sanitized id has 30 characters and ends in one '-'.
C25_Witness ==
  /\ ret.op = "construct" /\ Len(ret.arg) > 30
  /\ \E i \in 1..(Len(ret.arg) - 1) :
       ret.arg[i] \notin Letters \cup Digits /\ ret.arg[i + 1] \notin Letters \cup Digits
  /\ Len(ret.val) = 31
  /\ ret.val[31] = "-" /\ ret.val[30] # "-"

----------------------------------------------------------------------------
\* C24: for two different titles, a package write or a comment add, update
\* or delete through a service constructed from one title changes neither
\* the packages nor the comments of the Store of the other title.
C24_StoresIsolatedByTitle ==
  [][\A a \in IsoTitles, b \in IsoTitles :
       (/\ a # b
        /\ svc = Some(StoreOfTitle(a))
        /\ ret' # ret
        /\ ret'.op \in {"addPackage", "updatePackage", "addComment",
                        "updateComment", "deleteComment"})
       => /\ dbs'[StoreOfTitle(b)] = dbs[StoreOfTitle(b)]
          /\ comments'[StoreOfTitle(b)] = comments[StoreOfTitle(b)]]_vars

----------------------------------------------------------------------------
\* C26: when the engine answers every request with a success or an error
\* event, every Store operation that was called returns to its caller: no
\* call stays suspended forever.
C26_EveryCallReturns == (pending.op # "none") ~> (pending.op = "none")

----------------------------------------------------------------------------
\* C27: on an open Store updateComment(c) returns true, and leaves c stored
\* under c.timestamp, exactly when a comment with that timestamp was stored;
\* for a timestamp without a record it returns false and the comments are
\* unchanged.
C27_UpdateOnlyExisting ==
  [][(ret' # ret /\ ret'.op = "updateComment" /\ svc # Null) =>
       LET c == ret'.data
           stored == CommentAt(SvcComments, c.timestamp) # {}
       IN  /\ ret'.val = stored
           /\ stored => CommentAt(comments'[SvcStore], c.timestamp) = {c}
           /\ ~stored => comments' = comments]_vars

----------------------------------------------------------------------------
\* The numbers whose decimal string is s.
NumbersWritten(s) == {n \in 0..99 : DecimalString(n) = s}

\* C28: on an open Store deleteComment(t), with t a number or the decimal
\* string of one, returns true exactly when a comment with timestamp t was
\* stored; after the call no comment with timestamp t is stored and every
\* other comment, of this and of every other Store, is as before.
C28_DeleteReturnsWhetherStored ==
  [][(/\ ret' # ret /\ svc # Null
      /\ \/ ret'.op = "deleteComment"
         \/ ret'.op = "deleteComment(string)" /\ NumbersWritten(ret'.data) # {})
     => LET t == IF ret'.op = "deleteComment" THEN ret'.data
                 ELSE CHOOSE n \in NumbersWritten(ret'.data) : TRUE
            before == comments[SvcStore]
        IN  /\ ret'.val = (\E c \in before : c.timestamp = t)
            /\ comments' = [comments EXCEPT
                              ![SvcStore] = {c \in before : c.timestamp # t}]]_vars

\* A deleteComment given the string "1" that removed the comment of
\* timestamp 1 and left another comment in the Store.
C28_Witness ==
  /\ ret.op = "deleteComment(string)" /\ ret.data = <<"1">> /\ ret.val = TRUE
  /\ svc # Null
  /\ comments[ret.arg] # {}
  /\ \A c \in comments[ret.arg] : c.timestamp # 1

----------------------------------------------------------------------------
\* C30: on an open Store getAllComments returns a sequence that holds
\* exactly the comments stored, one per timestamp, in ascending timestamp
\* order; for a Store without comments it returns the empty sequence, not
\* null.
C30_GetAllCommentsInKeyOrder ==
  [][(ret' # ret /\ ret'.op = "getAllComments" /\ svc # Null) =>
       /\ ret'.val # Null
       /\ \A all \in ret'.val :
            /\ Range(all) = comments[SvcStore]
            /\ \A i, j \in 1..Len(all) : i < j => all[i].timestamp < all[j].timestamp
            /\ comments[SvcStore] = {} => all = <<>>]_vars

\* A listing of an open Store that holds two comments, the smaller
\* timestamp first.
C30_Witness ==
  /\ ret.op = "getAllComments" /\ svc # Null
  /\ \E all \in ret.val : Len(all) >= 2 /\ all[1].timestamp < all[2].timestamp

----------------------------------------------------------------------------
\* The operations that read or write the packages and comments of a Store.
CrudOps ==
  {"addPackage", "getPackage", "updatePackage", "addComment", "getComment",
   "updateComment", "deleteComment", "getAllComments"}

\* What an operation returns when it fails.
FailureValue(op) == IF op \in {"updatePackage", "updateComment", "deleteComment"}
                    THEN FALSE ELSE Null

\* C29: between close() and the next open() every CRUD operation on the
\* handle returns null or false and changes nothing: the catalog, the
\* packages and comments of every Store and the cache are as before the
\* call; close() and an open() of an existing Store that holds a Package
\* leave the packages and comments of every Store unchanged.
C29_ClosedHandleDoesNothing ==
  [][/\ (ret' # ret /\ svc = Null /\ ret'.op \in CrudOps) =>
          /\ ret'.val = FailureValue(ret'.op)
          /\ catalog' = catalog /\ dbs' = dbs /\ comments' = comments
          /\ cache' = cache
     /\ (ret' # ret /\ ret'.op = "close") => (dbs' = dbs /\ comments' = comments)
     /\ (ret' # ret /\ ret'.op = "open" /\ dbs[ret'.arg] # {}) =>
          (dbs' = dbs /\ comments' = comments)]_vars

\* C31: when two addPackage calls, or two open() calls carrying seed
\* Packages with different ids, run concurrently against the same empty
\* Store, exactly one of them writes its Package and the Store ends with
\* exactly one Package.
C31_OnePackageUnderInterleaving ==
  [][(ret' # ret /\ ret'.op = "pair" /\ ret'.before = {}
        /\ (ret'.kind = "open" => ret'.data[1].id # ret'.data[2].id)) =>
       /\ Cardinality(dbs'[ret'.arg]) = 1
       /\ Cardinality({i \in 1..2 : ret'.wrote[i]}) = 1]_vars

\* C32: if updatePackage on Store S runs while a getActiveFeedbackPackageForUrl
\* scan that has already read S is still in flight, then once both have
\* completed the Cache holds no Package of S other than the one S holds now.
C32_NoStaleCacheAfterInterleavedUpdate ==
  [][(ret' # ret /\ ret'.op = "getActive" /\ pending.op = "getActive") =>
       \A e \in CachedEntries' :
         e.dbId \in ret'.updated => e.packageData \in dbs'[e.dbId]]_vars

\* C33: in every state where no operation is in flight, a Cache entry, if
\* present, names an existing Store whose only Package is the cached Package
\* and whose rootURL is the cached root; the create-package flow included,
\* also when its Store open or its package write failed.
C33_CacheEntryIsCurrent ==
  pending = NoPending =>
    \A e \in CachedEntries :
      /\ Exists(StoreOfId(e.dbId))
      /\ dbs[StoreOfId(e.dbId)] = {e.packageData}
      /\ cache.bc_root = Some(e.packageData.rootURL)

\* C34: the store id in every result of getActiveFeedbackPackageForUrl
\* designates the Store that holds the returned Package: a service
\* constructed from that id and opened reads that Package with getPackage.
C34_StoreIdDesignatesStore ==
  [][(ret' # ret /\ ret'.op = "getActive") =>
       \A r \in ret'.val :
         GetPackageResult(dbs'[StoreOfId(r.dbId)], TRUE)
           = [threw |-> FALSE, val |-> {r.packageData}]]_vars

\* C35: searchByUrl and getActiveFeedbackPackageForUrl never create a Store,
\* never change the set of names the Catalog lists and never change any
\* Store's Package or comments, whatever the Catalog lists, names whose id
\* part is empty or not in sanitized form included.
C35_ResolutionIsReadOnly ==
  [][(ret' # ret /\ ret'.op \in {"searchByUrl", "getActive"}) =>
       /\ Range(catalog') = Range(catalog)
       /\ dbs' = dbs
       /\ comments' = comments]_vars

\* C36: when searchByUrl has returned and closed the handles it opened, a
\* newly constructed and opened handle on any of the matched stores reads
\* the matched Package and can write a comment, and a second searchByUrl
\* with the same URL returns the same matches; for stores of the engine and
\* for stores supplied through useFakeDatabases.
C36_ScanLeavesStoresUsable ==
  ret.op = "searchByUrl" =>
    /\ \A i \in 1..Len(ret.val) :
         LET id == ret.val[i].dbId IN
         /\ HandleGetPackage(id, dbs, fakeDatabases)
              = [threw |-> FALSE, val |-> {ret.val[i].packageData}]
         /\ \A c \in StoreComments :
              CommentAt(comments[id], c.timestamp) = {} =>
                LET w == HandleAddComment(id, comments, fakeDatabases, c)
                IN  ~w.threw /\ w.val = Some(c.timestamp)
    /\ SearchByUrlRegistry(ret.arg, catalog, dbs, fakeDatabases).matches = ret.val


\* C37: a failure while writing the cache entry does not change the result
\* of the resolution: when the scan of getActiveFeedbackPackageForUrl found
\* a match and localStorage.setItem raises, the call still returns the
\* first match of the scan, not null.
C37_WriteFailureKeepsResult ==
  [][(ret' # ret /\ ret'.op = "getActive" /\ "write" \in DOMAIN ret'
        /\ ret'.write # "ok" /\ ret'.scanned # <<>>) =>
       /\ ~ret'.threw
       /\ ret'.val = Some([dbId |-> ret'.scanned[1].dbId,
                           packageData |-> ret'.scanned[1].packageData])]_vars

====
